---- MODULE Spec2Model ----
(***************************************************************************)
(* A model of rsaref-rs: the seeded pseudo-random generator (r_random.rs), *)
(* the fixed-width digit engine (nn.rs) and the RSA key operations         *)
(* (rsa.rs).                                                               *)
(*                                                                         *)
(* Widths.  The program's byte has 8 bits and its digit (u32) has 4 bytes. *)
(* TLC's integers are 32-bit signed, so the model keeps the ratio of 4     *)
(* bytes per digit and makes the byte ByteBits = 2 bits wide (a digit has  *)
(* 8 bits); every mask, shift and wrap-around of the code is taken modulo  *)
(* the scaled width, and 0xFF is the byte ByteMax.                         *)
(***************************************************************************)
EXTENDS Integers, Sequences, FiniteSets, TLC

\* u8::BITS, scaled from 8 to 2.
ByteBits == 2

\* Number of calls made on one RandomStruct in a behaviour.
MaxCalls == 4

RECURSIVE Pow2(_)
Pow2(k) == IF k = 0 THEN 1 ELSE 2 * Pow2(k - 1)

\* u8::MAX + 1
ByteBase == Pow2(ByteBits)

\* u8::MAX, the byte the code writes as 0xFF
ByteMax == ByteBase - 1

Bytes == 0 .. ByteMax

Min(a, b) == IF a < b THEN a ELSE b

Max(a, b) == IF a > b THEN a ELSE b

\* [v; n]
Fill(n, v) == SubSeq([i \in 1 .. n |-> v], 1, n)

\* s[from..to] of Rust, 0-based and half-open, as a 1-based sequence
Slice(s, from, to) == SubSeq(s, from + 1, to)

(***************************************************************************)
(* r_random.rs                                                             *)
(***************************************************************************)

RANDOM_BYTES_NEEDED == 256

\* Length of the mixing state, of the output buffer and of an MD5 digest.
DigestLen == 16

\* The MD5 digest of a byte string (the md5 crate): a deterministic function
\* of the whole string giving DigestLen bytes.  The model folds the string
\* into a checksum (by halves, position-dependent) and spreads it over the
\* digest's bytes.
RECURSIVE Md5Fold(_, _, _)
Md5Fold(m, lo, hi) ==
    IF lo > hi THEN 7
    ELSE IF lo = hi THEN m[lo] + 1
    ELSE LET mid == (lo + hi) \div 2
         IN  (Md5Fold(m, lo, mid) * 31 + Md5Fold(m, mid + 1, hi) * 17 + hi) % 65521

Md5(m) ==
    LET h == Md5Fold(m, 1, Len(m)) + Len(m)
    IN  SubSeq([i \in 1 .. DigestLen |-> ((h \div i) + h * i + i) % ByteBase], 1, DigestLen)

VARIABLES
    rs,         \* the RandomStruct: bytes_needed, state, output_available, output
    seeded,     \* total length of the blocks given to random_update since the last new/random_init
    finalized,  \* random_final has been called since the last new/random_init
    ret,        \* the last call and what it returned
    calls,      \* number of calls made so far
    origin      \* the call that last reset the generator: new or random_init

randomVars == <<rs, seeded, finalized, ret, calls, origin>>

VARIABLE nn     \* the digit engine's operands, the calls made on them and their results

VARIABLE rsa    \* a key, an input, the key operations called and their results

VARIABLE kg     \* a key-generation request, the prime source's answer and the result

nonRandomVars == <<nn, rsa, kg>>

nonNNVars == <<rs, seeded, finalized, ret, calls, origin, rsa, kg>>

\* What an RSA action leaves alone besides rs.
nonRSAVars == <<seeded, finalized, ret, calls, origin, nn, kg>>

nonKeygenVars == <<rs, seeded, finalized, ret, calls, origin, nn, rsa>>

\* No key generation requested.
IdleKeygen ==
    [proto_key |-> [bits |-> 0, use_fermat4 |-> FALSE], called |-> FALSE,
     consulted |-> FALSE, primes |-> [kind |-> "none"], res |-> [kind |-> "none"],
     op |-> "none", b |-> 0, c |-> 0, r |-> 0]

\* No key operation called.
IdleRSA ==
    [kind |-> "idle", key |-> <<>>, input |-> <<>>,
     first |-> [kind |-> "none"], res |-> [kind |-> "none"], hist |-> <<>>,
     block |-> <<>>]

\* The digit engine with no operands.
IdleNN ==
    [kind |-> "idle", a |-> <<>>, b |-> <<>>, x |-> <<>>, r |-> <<>>,
     bytes |-> <<>>, hist |-> <<>>, panic |-> FALSE,
     bits |-> 0, overflow_checks |-> FALSE]

NoCall == [op |-> "none"]

\* RandomStruct::new
new ==
    [bytes_needed |-> RANDOM_BYTES_NEEDED,
     state |-> Fill(DigestLen, 0),
     output_available |-> 0,
     output |-> Fill(DigestLen, 0)]

\* The loop "add digest to state" of random_update: x carries from byte 0 upward.
RECURSIVE AddDigest(_, _, _, _)
AddDigest(state, digest, i, x) ==
    IF i > DigestLen THEN state
    ELSE LET y == x + state[i] + digest[i]
         IN  AddDigest([state EXCEPT ![i] = y % ByteBase], digest, i + 1, y \div ByteBase)

\* A subtraction that gives the distance instead of stopping at zero.
SubDistance(a, b) == IF a >= b THEN a - b ELSE b - a

\* usize::saturating_sub
SaturatingSub(a, b) == IF a >= b THEN a - b ELSE 0

\* The struct after random_update(block)
random_update(r, block) ==
    [r EXCEPT !.state = AddDigest(r.state, Md5(block), 1, 0),
              !.bytes_needed = SaturatingSub(r.bytes_needed, Len(block))]

\* The loop "increment state" of generate_bytes: from the last byte backwards,
\* each byte is incremented (wrapping) and the loop stops at the first byte
\* that was not zero before its increment.
RECURSIVE IncrementState(_, _)
IncrementState(state, i) ==
    IF i < 1 THEN state
    ELSE LET was_zero == state[i] = 0
             next == [state EXCEPT ![i] = (state[i] + 1) % ByteBase]
         IN  IF ~was_zero THEN next ELSE IncrementState(next, i - 1)

\* The while loop of generate_bytes.  g holds the loop's variables: the
\* struct, block, block_len and available.
RECURSIVE GenerateLoop(_)
GenerateLoop(g) ==
    IF g.block_len > g.available
    THEN GenerateLoop(
            [r |-> [g.r EXCEPT !.output = Md5(g.r.state),
                               !.state = IncrementState(g.r.state, DigestLen)],
             block |-> g.block \o Slice(g.r.output, DigestLen - g.available, DigestLen),
             block_len |-> g.block_len - g.available,
             available |-> DigestLen])
    ELSE g

\* generate_bytes forgetting what it leaves in the output buffer.
GenerateBytesDropRest(r, block_len) ==
    IF r.bytes_needed /= 0
    THEN [res |-> [ok |-> FALSE, err |-> "NeedRandom", block |-> <<>>], r |-> r]
    ELSE LET g == GenerateLoop([r |-> r, block |-> <<>>, block_len |-> block_len,
                                available |-> r.output_available])
             rest_block_start == DigestLen - g.available
         IN  [res |-> [ok |-> TRUE, err |-> "none",
                       block |-> g.block \o Slice(g.r.output, rest_block_start,
                                                   rest_block_start + g.block_len)],
              r |-> [g.r EXCEPT !.output_available = 0]]

\* generate_bytes(block_len): the result and the struct afterwards.
GenerateGuard(r) == r.bytes_needed /= 0

generate_bytes(r, block_len) ==
    IF GenerateGuard(r)
    THEN [res |-> [ok |-> FALSE, err |-> "NeedRandom", block |-> <<>>], r |-> r]
    ELSE LET g == GenerateLoop([r |-> r, block |-> <<>>, block_len |-> block_len,
                                available |-> r.output_available])
             rest_block_start == DigestLen - g.available
         IN  [res |-> [ok |-> TRUE, err |-> "none",
                       block |-> g.block \o Slice(g.r.output, rest_block_start,
                                                   rest_block_start + g.block_len)],
              r |-> [g.r EXCEPT !.output_available = g.available - g.block_len]]

\* The struct after random_init
random_init(r) ==
    [r EXCEPT !.bytes_needed = RANDOM_BYTES_NEEDED,
              !.state = Fill(DigestLen, 0),
              !.output_available = 0]

\* The struct after random_final
random_final(r) ==
    [r EXCEPT !.bytes_needed = 0,
              !.state = Fill(DigestLen, 0),
              !.output_available = 0,
              !.output = Fill(DigestLen, 0)]

\* Blocks a caller passes to random_update: each length with two contents.
UpdateLens == {0, 1, 128, 255, 256}

UpdateBlocks == { [i \in 1 .. n |-> (i + b) % ByteBase] : n \in UpdateLens, b \in 0 .. 1 }

\* Lengths a caller asks generate_bytes for.
GenerateLens == {0, 1, DigestLen - 1, DigestLen, DigestLen + 1}

InitRandom ==
    /\ rs = new
    /\ seeded = 0
    /\ finalized = FALSE
    /\ ret = NoCall
    /\ calls = 0
    /\ origin = "new"
    /\ nn = IdleNN
    /\ rsa = IdleRSA
    /\ kg = IdleKeygen

New ==
    /\ UNCHANGED nonRandomVars
    /\ calls < MaxCalls
    /\ rs' = new
    /\ seeded' = 0
    /\ finalized' = FALSE
    /\ ret' = [op |-> "new"]
    /\ origin' = "new"
    /\ calls' = calls + 1

RandomInit ==
    /\ UNCHANGED nonRandomVars
    /\ calls < MaxCalls
    /\ rs' = random_init(rs)
    /\ seeded' = 0
    /\ finalized' = FALSE
    /\ ret' = [op |-> "random_init"]
    /\ origin' = "random_init"
    /\ calls' = calls + 1

RandomUpdate ==
    /\ UNCHANGED nonRandomVars
    /\ calls < MaxCalls
    /\ \E block \in UpdateBlocks :
          /\ rs' = random_update(rs, block)
          /\ seeded' = seeded + Len(block)
          /\ ret' = [op |-> "random_update"]
    /\ calls' = calls + 1
    /\ UNCHANGED <<finalized, origin>>

Generate ==
    /\ UNCHANGED nonRandomVars
    /\ calls < MaxCalls
    /\ \E block_len \in GenerateLens :
          LET g == generate_bytes(rs, block_len)
          IN  /\ rs' = g.r
              /\ ret' = [op |-> "generate_bytes", block_len |-> block_len, res |-> g.res]
    /\ calls' = calls + 1
    /\ UNCHANGED <<seeded, finalized, origin>>

RandomFinal ==
    /\ UNCHANGED nonRandomVars
    /\ calls < MaxCalls
    /\ rs' = random_final(rs)
    /\ finalized' = TRUE
    /\ ret' = [op |-> "random_final"]
    /\ calls' = calls + 1
    /\ UNCHANGED <<seeded, origin>>

NextRandom == New \/ RandomInit \/ RandomUpdate \/ Generate \/ RandomFinal

\* C1: whenever fewer than RANDOM_BYTES_NEEDED bytes have been passed to
\* random_update since the last new/random_init, generate_bytes returns
\* Err(NeedRandom) and no bytes, in every state reachable by new, random_init,
\* random_update, generate_bytes and random_final.
C1_UnderSeededGenerateFails ==
    (ret.op = "generate_bytes" /\ seeded < RANDOM_BYTES_NEEDED)
        => (~ret.res.ok /\ ret.res.err = "NeedRandom" /\ ret.res.block = <<>>)

\* C2: once random_final has been called, every later generate_bytes fails
\* with Err(NeedRandom) until the generator is re-initialised.
C2_FinalIsTerminal ==
    (ret.op = "generate_bytes" /\ finalized)
        => (~ret.res.ok /\ ret.res.err = "NeedRandom")

\* C13: after new/random_init and any random_update calls of total length L,
\* bytes_needed = max(0, 256 - L); and generate_bytes(n) returns Ok with
\* exactly n bytes if and only if bytes_needed = 0, else Err(NeedRandom).
C13_ReadyIsEntropyDebt ==
    /\ ~finalized => rs.bytes_needed = Max(0, RANDOM_BYTES_NEEDED - seeded)
    /\ ret.op = "generate_bytes" =>
          /\ ret.res.ok <=> rs.bytes_needed = 0
          /\ ret.res.ok => Len(ret.res.block) = ret.block_len
          /\ ~ret.res.ok => (ret.res.err = "NeedRandom" /\ ret.res.block = <<>>)

\* Updates of 255 and 128 bytes (more than the debt, which stops at zero),
\* then a block longer than one digest generated.
C13_Witness ==
    /\ ret.op = "generate_bytes" /\ ~finalized
    /\ calls = 3 /\ seeded = 255 + 128
    /\ rs.bytes_needed = 0
    /\ ret.res.ok /\ Len(ret.res.block) = DigestLen + 1

\* The bytes a generator with nothing buffered gives for generate_bytes(n):
\* the digests of its state and of the incremented states that follow.
RECURSIVE FreshStream(_, _)
FreshStream(state, n) ==
    IF n = 0 THEN <<>>
    ELSE IF n <= DigestLen THEN SubSeq(Md5(state), 1, n)
    ELSE Md5(state) \o FreshStream(IncrementState(state, DigestLen), n - DigestLen)

\* random_init leaves bytes_needed = 256, a zero mixing state and nothing
\* buffered, whatever the state it is called in.
InitResetsStruct ==
    ret.op = "random_init" =>
        /\ rs.bytes_needed = RANDOM_BYTES_NEEDED
        /\ rs.state = Fill(DigestLen, 0)
        /\ rs.output_available = 0

\* A generator with nothing buffered returns only bytes generated from its
\* current state, none of an earlier buffer.
NothingStaleReturned ==
    [][(ret'.op = "generate_bytes" /\ ret'.res.ok /\ rs.output_available = 0) =>
           ret'.res.block = FreshStream(rs.state, ret'.block_len)]_<<rs, ret>>

\* C14: random_init in any state leaves bytes_needed = 256, a zero mixing
\* state and output_available = 0, and from then on generate_bytes fails with
\* NeedRandom until 256 further bytes have gone through random_update.
C14_InitReturnsToSeeding ==
    /\ InitResetsStruct
    /\ (ret.op = "generate_bytes" /\ origin = "random_init"
           /\ seeded < RANDOM_BYTES_NEEDED) =>
          (~ret.res.ok /\ ret.res.err = "NeedRandom" /\ ret.res.block = <<>>)

\* state + 1 as a big-endian integer of DigestLen bytes, modulo its range:
\* from the last byte leftwards, a byte that wraps from ByteMax to 0 carries
\* into the byte on its left.
RECURSIVE CounterPlusOne(_, _)
CounterPlusOne(state, i) ==
    IF i < 1 THEN state
    ELSE IF state[i] = ByteMax
         THEN CounterPlusOne([state EXCEPT ![i] = 0], i - 1)
         ELSE [state EXCEPT ![i] = state[i] + 1]

RECURSIVE CounterPlus(_, _)
CounterPlus(state, n) ==
    IF n = 0 THEN state ELSE CounterPlus(CounterPlusOne(state, DigestLen), n - 1)

\* Number of times generate_bytes(block_len) refills the output buffer when
\* available bytes are buffered.
Refills(block_len, available) ==
    IF block_len <= available THEN 0
    ELSE (block_len - available + DigestLen - 1) \div DigestLen

\* C22: each refill of the output buffer replaces the mixing state S, read as
\* a big-endian integer, by S + 1 modulo its range, the carry moving left
\* exactly when a byte wraps from 0xFF to 0x00.
C22_StateIsCounter ==
    [][(ret'.op = "generate_bytes" /\ ret'.res.ok) =>
           rs'.state = CounterPlus(rs.state,
                                   Refills(ret'.block_len, rs.output_available))]_<<rs, ret>>

\* The same for a single refill of a state whose last byte is neither 0x00
\* nor 0xFF, where no carry is due.
CounterWithoutCarry ==
    [][(ret'.op = "generate_bytes" /\ ret'.res.ok
           /\ Refills(ret'.block_len, rs.output_available) = 1
           /\ rs.state[DigestLen] \notin {0, ByteMax}) =>
           rs'.state = CounterPlusOne(rs.state, DigestLen)]_<<rs, ret>>

\* A refill of a state whose last byte was 0xFF: the byte wraps and the carry
\* is not taken.
CarryDropped ==
    [][(ret'.op = "generate_bytes" /\ ret'.res.ok
           /\ Refills(ret'.block_len, rs.output_available) = 1
           /\ rs.state[DigestLen] = ByteMax) =>
           rs'.state = [rs.state EXCEPT ![DigestLen] = 0]]_<<rs, ret>>

\* The first n bytes of the generator's stream from the struct r: what is
\* left in the output buffer, then the digests of the successive mixing states.
StreamFrom(r, n) ==
    IF n <= r.output_available
    THEN Slice(r.output, DigestLen - r.output_available,
               DigestLen - r.output_available + n)
    ELSE Slice(r.output, DigestLen - r.output_available, DigestLen)
            \o FreshStream(r.state, n - r.output_available)

\* C23: a successful generate_bytes(a) followed by generate_bytes(b) returns,
\* concatenated, the bytes generate_bytes(a + b) returns from the same state
\* and leaves the same struct; what a call returns is the next bytes of the
\* stream of digests, the following call continuing where it stopped, and
\* output_available never exceeds the digest length.
C23_SplitIndependent ==
    [][(ret'.op = "generate_bytes" /\ ret'.res.ok) =>
          /\ ret'.res.block = StreamFrom(rs, ret'.block_len)
          /\ rs'.output_available <= DigestLen
          /\ \A b \in GenerateLens :
                \E second \in {generate_bytes(rs', b)} :
                \E whole \in {generate_bytes(rs, ret'.block_len + b)} :
                   /\ second.res.ok /\ whole.res.ok
                   /\ ret'.res.block \o second.res.block = whole.res.block
                   /\ second.r = whole.r
                   /\ whole.res.block = StreamFrom(rs, ret'.block_len + b)]_<<rs, ret>>

\* Two requests in a row on a seeded generator, the second served partly from
\* what the first left in the buffer and partly from a new digest.
C23_Witness ==
    /\ calls = 3 /\ seeded = RANDOM_BYTES_NEEDED /\ ~finalized
    /\ ret.op = "generate_bytes" /\ ret.res.ok
    /\ ret.block_len = DigestLen + 1
    /\ rs.output_available = DigestLen - 2
    /\ Len(ret.res.block) = DigestLen + 1

(***************************************************************************)
(* nn.rs                                                                   *)
(***************************************************************************)

\* u32::BITS / u8::BITS
BytesPerDigit == 4

\* u32::BITS, scaled with the byte
DigitBits == BytesPerDigit * ByteBits

\* u32::MAX + 1
DigitBase == Pow2(DigitBits)

\* u32::MAX
DigitMax == DigitBase - 1

\* a & b and a | b on unsigned words
RECURSIVE BitAnd(_, _)
BitAnd(a, b) ==
    IF a = 0 \/ b = 0 THEN 0
    ELSE (a % 2) * (b % 2) + 2 * BitAnd(a \div 2, b \div 2)

RECURSIVE BitOr(_, _)
BitOr(a, b) ==
    IF a = 0 THEN b
    ELSE IF b = 0 THEN a
    ELSE Max(a % 2, b % 2) + 2 * BitOr(a \div 2, b \div 2)

\* x << k and x >> k on a u32, for k < u32::BITS
Shl(x, k) == (x * Pow2(k)) % DigitBase

Shr(x, k) == x \div Pow2(k)

\* NNDigits::zero
zero == <<0>>

\* NNDigits::set_digit_count
set_digit_count(x, digit_count) ==
    IF digit_count < Len(x)
    THEN SubSeq(x, 1, digit_count)
    ELSE x \o Fill(digit_count - Len(x), 0)

\* decode starting a new digit one byte late (bit_offset > u32::BITS)
RECURSIVE DecodeLoopLate(_, _, _, _, _)
DecodeLoopLate(b, k, digits, current_digit, bit_offset) ==
    IF k < 1 THEN Append(digits, current_digit)
    ELSE IF bit_offset > DigitBits
         THEN DecodeLoopLate(b, k - 1, Append(digits, current_digit),
                             BitOr(0, Shl(b[k], 0)), ByteBits)
         ELSE DecodeLoopLate(b, k - 1, digits,
                             BitOr(current_digit, Shl(b[k], bit_offset)),
                             bit_offset + ByteBits)

\* The loop of decode over b.iter().rev(); k is the 1-based index of the byte.
RECURSIVE DecodeLoop(_, _, _, _, _)
DecodeLoop(b, k, digits, current_digit, bit_offset) ==
    IF k < 1 THEN Append(digits, current_digit)
    ELSE IF bit_offset >= DigitBits
         THEN DecodeLoop(b, k - 1, Append(digits, current_digit),
                         BitOr(0, Shl(b[k], 0)), ByteBits)
         ELSE DecodeLoop(b, k - 1, digits,
                         BitOr(current_digit, Shl(b[k], bit_offset)),
                         bit_offset + ByteBits)

\* NNDigits::decode
decode(b) == DecodeLoop(b, Len(b), <<>>, 0, 0)

\* The inner loop of encode: the bytes of one digit, uppermost first.
RECURSIVE EncodeDigit(_, _, _)
EncodeDigit(n, k, result) ==
    IF k = 0 THEN result
    ELSE LET top_byte == BitAnd(n, Shl(ByteMax, DigitBits - ByteBits))
             byte == Shr(top_byte, DigitBits - ByteBits) % (ByteMax + 1)
         IN  EncodeDigit(Shl(n, ByteBits), k - 1, Append(result, byte))

\* The outer loop of encode over digits.iter().rev()
RECURSIVE EncodeLoop(_, _, _)
EncodeLoop(digits, i, result) ==
    IF i < 1 THEN result
    ELSE EncodeLoop(digits, i - 1, EncodeDigit(digits[i], BytesPerDigit, result))

\* NNDigits::encode
encode(x) == EncodeLoop(x, Len(x), <<>>)

\* NNDigits::assign_2_exp
assign_2_exp(exp) ==
    LET offset == exp \div DigitBits
    IN  [Fill(offset + 1, 0) EXCEPT ![offset + 1] = Shl(1, exp % DigitBits)]

\* add clearing the carry when n1 + carry overflows
RECURSIVE AddLoopCarryLost(_, _, _, _, _)
AddLoopCarryLost(a, b, i, carry, result_digits) ==
    IF i > Len(a) THEN result_digits
    ELSE IF a[i] + carry > DigitMax
         THEN AddLoopCarryLost(a, b, i + 1, 0, Append(result_digits, b[i]))
         ELSE LET n1_plus_carry == a[i] + carry
              IN  IF n1_plus_carry + b[i] > DigitMax
                  THEN AddLoopCarryLost(a, b, i + 1, 1,
                               Append(result_digits, (n1_plus_carry + b[i]) % DigitBase))
                  ELSE AddLoopCarryLost(a, b, i + 1, 0,
                               Append(result_digits, n1_plus_carry + b[i]))

\* The loop of add; the carry is kept when n1 + carry overflows.
RECURSIVE AddLoop(_, _, _, _, _)
AddLoop(a, b, i, carry, result_digits) ==
    IF i > Len(a) THEN result_digits
    ELSE IF a[i] + carry > DigitMax
         THEN AddLoop(a, b, i + 1, carry, Append(result_digits, b[i]))
         ELSE LET n1_plus_carry == a[i] + carry
              IN  IF n1_plus_carry + b[i] > DigitMax
                  THEN AddLoop(a, b, i + 1, 1,
                               Append(result_digits, (n1_plus_carry + b[i]) % DigitBase))
                  ELSE AddLoop(a, b, i + 1, 0,
                               Append(result_digits, n1_plus_carry + b[i]))

\* NNDigits::add
add(a, b) == AddLoop(a, b, 1, 0, <<>>)

\* The loop of sub; the borrow is kept when n1 - borrow underflows.
RECURSIVE SubLoop(_, _, _, _, _)
SubLoop(a, b, i, borrow, result_digits) ==
    IF i > Len(a) THEN result_digits
    ELSE IF a[i] - borrow < 0
         THEN SubLoop(a, b, i + 1, borrow, Append(result_digits, DigitMax - b[i]))
         ELSE LET n1_minus_borrow == a[i] - borrow
              IN  IF n1_minus_borrow - b[i] < 0
                  THEN SubLoop(a, b, i + 1, 1,
                               Append(result_digits, (n1_minus_borrow - b[i]) % DigitBase))
                  ELSE SubLoop(a, b, i + 1, 0,
                               Append(result_digits, n1_minus_borrow - b[i]))

\* NNDigits::sub
sub(a, b) == SubLoop(a, b, 1, 0, <<>>)

\* The two nested loops of mult; i1 and i2 are the 0-based indices.  Each
\* pass replaces the accumulator by accumulator.add(add_digits), which has
\* the accumulator's digit count (the assertion that closes add).
RECURSIVE MultLoop(_, _, _, _, _)
MultLoop(a, b, i1, i2, accumulator) ==
    IF i1 >= Len(a) THEN accumulator
    ELSE IF i2 >= Len(b) THEN MultLoop(a, b, i1 + 1, 0, accumulator)
    ELSE LET mul == a[i1 + 1] * b[i2 + 1]
             lower_digit_n == mul % DigitBase
             higher_digit_n == (mul \div DigitBase) % DigitBase
             digit_shift == i1 + i2
             add_digits == [set_digit_count(zero, Len(accumulator))
                               EXCEPT ![digit_shift + 1] = lower_digit_n,
                                      ![digit_shift + 2] = higher_digit_n]
             sum == add(accumulator, add_digits)
         IN  IF Len(sum) = Len(accumulator)
             THEN MultLoop(a, b, i1, i2 + 1, sum)
             ELSE sum

\* mult returning its whole accumulator
MultResultCountDouble(a) == Len(a) * 2

\* The width mult cuts its accumulator to before returning it.
MultResultCount(a) == Len(a)

\* NNDigits::mult
mult(a, b) ==
    set_digit_count(MultLoop(a, b, 0, 0, set_digit_count(zero, Len(a) * 2)),
                    MultResultCount(a))

\* NNDigits::compare, from the most significant digit down
RECURSIVE CompareLoop(_, _, _)
CompareLoop(a, b, i) ==
    IF i < 1 THEN "Equal"
    ELSE IF a[i] > b[i] THEN "Greater"
    ELSE IF a[i] < b[i] THEN "Less"
    ELSE CompareLoop(a, b, i - 1)

compare(a, b) == CompareLoop(a, b, Len(a))

\* divmod keeping a quotient bit only when the product is strictly less
RECURSIVE DivmodLoopStrict(_, _, _, _)
DivmodLoopStrict(divisor, dividend, i, quotient) ==
    IF i < 0 THEN quotient
    ELSE LET nn_bit == set_digit_count(assign_2_exp(i), Len(divisor))
             quotient_high == add(quotient, nn_bit)
             try_mult_high == mult(quotient_high, dividend)
         IN  IF compare(try_mult_high, divisor) = "Less"
             THEN DivmodLoopStrict(divisor, dividend, i - 1, quotient_high)
             ELSE DivmodLoopStrict(divisor, dividend, i - 1, quotient)

\* The loop of divmod over the quotient's bit positions, from the top down.
\* (In the code `divisor` is the double-width copy of self and `dividend` of other.)
RECURSIVE DivmodLoop(_, _, _, _)
DivmodLoop(divisor, dividend, i, quotient) ==
    IF i < 0 THEN quotient
    ELSE LET nn_bit == set_digit_count(assign_2_exp(i), Len(divisor))
             quotient_high == add(quotient, nn_bit)
             try_mult_high == mult(quotient_high, dividend)
         IN  IF compare(try_mult_high, divisor) \in {"Less", "Equal"}
             THEN DivmodLoop(divisor, dividend, i - 1, quotient_high)
             ELSE DivmodLoop(divisor, dividend, i - 1, quotient)

\* NNDigits::divmod: <<quotient, modulus>>
divmod(self, other) ==
    LET divisor == set_digit_count(self, Len(self) * 2)
        dividend == set_digit_count(other, Len(other) * 2)
        quotient == DivmodLoop(divisor, dividend, Len(self) * DigitBits - 1,
                               set_digit_count(set_digit_count(zero, Len(self)),
                                               Len(self) * 2))
        modulus == sub(divisor, mult(quotient, dividend))
    IN  <<set_digit_count(quotient, Len(self)), set_digit_count(modulus, Len(self))>>

\* A shift of a u32 by an amount that may reach u32::BITS, as lshift and rshift
\* do for bits = 0: with overflow checks (debug builds, cargo test) the shift
\* aborts, without them (release builds) the amount is taken modulo u32::BITS.
\* The result is the shifted value, or -1 for an abort.
ShiftAmountChecked(v, k, overflow_checks, left) ==
    IF k >= DigitBits /\ overflow_checks THEN -1
    ELSE IF left THEN Shl(v, k % DigitBits) ELSE Shr(v, k % DigitBits)

\* The loop of lshift over the digits, lowest first: dest = (source << bits) |
\* shifted, then shifted = source >> (u32::BITS - bits).
RECURSIVE LshiftLoop(_, _, _, _, _, _)
LshiftLoop(x, bits, i, shifted, result, overflow_checks) ==
    IF i > Len(x) THEN [panic |-> FALSE, digits |-> result]
    ELSE LET carry == ShiftAmountChecked(x[i], DigitBits - bits, overflow_checks, FALSE)
         IN  IF carry < 0 THEN [panic |-> TRUE, digits |-> <<>>]
             ELSE LshiftLoop(x, bits, i + 1, carry,
                             Append(result, BitOr(Shl(x[i], bits), shifted)),
                             overflow_checks)

\* NNDigits::lshift: [panic, digits]; the assertion bits < u32::BITS aborts
lshift(x, bits, overflow_checks) ==
    IF bits >= DigitBits THEN [panic |-> TRUE, digits |-> <<>>]
    ELSE LshiftLoop(x, bits, 1, 0, <<>>, overflow_checks)

\* The loop of rshift over the digits, highest first: dest = (source >> bits) |
\* shifted, then shifted = source << (u32::BITS - bits).
RECURSIVE RshiftLoop(_, _, _, _, _, _)
RshiftLoop(x, bits, i, shifted, result, overflow_checks) ==
    IF i < 1 THEN [panic |-> FALSE, digits |-> result]
    ELSE LET carry == ShiftAmountChecked(x[i], DigitBits - bits, overflow_checks, TRUE)
         IN  IF carry < 0 THEN [panic |-> TRUE, digits |-> <<>>]
             ELSE RshiftLoop(x, bits, i - 1, carry,
                             <<BitOr(Shr(x[i], bits), shifted)>> \o result,
                             overflow_checks)

\* NNDigits::rshift: [panic, digits]
rshift(x, bits, overflow_checks) ==
    IF bits >= DigitBits THEN [panic |-> TRUE, digits |-> <<>>]
    ELSE RshiftLoop(x, bits, Len(x), 0, <<>>, overflow_checks)

\* Largest digit count of an operand of add, sub, encode.
MaxDigits == 3

\* Largest digit count of an operand of mult and divmod, which work on
\* accumulators of twice that width.
MaxWideDigits == 2

\* Largest length of a byte string passed to decode.
MaxBytes == 5

\* Digits the operands are built from: the ends of the range, and values
\* whose sums and differences wrap.
DigitSamples == {0, 1, DigitBase \div 2, DigitMax}

NNOperands(n) == [1 .. n -> DigitSamples]

\* Second operands of add and sub: digits that make and absorb carries.
NNAddends(n) == [1 .. n -> {0, 1, DigitMax}]

\* Dividends of each digit count: those digits, and a half-range digit at each
\* place among digits 0 or DigitMax.
Dividends(n) ==
    NNAddends(n)
        \cup { [i \in 1 .. n |-> IF i = k THEN DigitBase \div 2 ELSE d] :
                  k \in 1 .. n, d \in {0, DigitMax} }

\* Divisors of each digit count: zero, the sequences of equal digits 1 and
\* DigitMax, the small divisor 3 and the top power of the base.
Divisors(n) ==
    { [i \in 1 .. n |-> d] : d \in {0, 1, DigitMax} }
        \cup { [i \in 1 .. n |-> IF i = 1 THEN 3 ELSE 0],
               [i \in 1 .. n |-> IF i = n THEN 1 ELSE 0] }

\* The shift counts: every count the assertion allows, and the first it
\* rejects.
ShiftCounts == 0 .. DigitBits

ByteStrings == UNION { [1 .. n -> Bytes] : n \in 0 .. MaxBytes }

\* The operands of one call: two NNDigits of equal digit count (for add and
\* sub, for mult, for divmod), one NNDigits, or one byte string.
InitNN ==
    /\ rs = new
    /\ seeded = 0
    /\ finalized = FALSE
    /\ ret = NoCall
    /\ calls = 0
    /\ origin = "new"
    /\ rsa = IdleRSA
    /\ kg = IdleKeygen
    /\ \/ \E n \in 1 .. MaxDigits : \E a \in NNOperands(n), b \in NNAddends(n) :
             nn = [IdleNN EXCEPT !.kind = "pair", !.a = a, !.b = b, !.x = a]
       \/ \E n \in 1 .. MaxWideDigits : \E a \in NNOperands(n), b \in NNOperands(n) :
             nn = [IdleNN EXCEPT !.kind = "mul", !.a = a, !.b = b, !.x = a]
       \/ \E n \in 1 .. MaxWideDigits : \E a \in Dividends(n), b \in Divisors(n) :
             nn = [IdleNN EXCEPT !.kind = "div", !.a = a, !.b = b, !.x = a]
       \/ \E n \in 0 .. MaxDigits : \E a \in NNOperands(n) :
             nn = [IdleNN EXCEPT !.kind = "digits", !.a = a, !.x = a]
       \/ \E b \in ByteStrings :
             nn = [IdleNN EXCEPT !.kind = "bytes", !.bytes = b]
       \/ \E n \in 0 .. MaxWideDigits : \E a \in NNOperands(n) :
          \E bits \in ShiftCounts, overflow_checks \in BOOLEAN :
             nn = [IdleNN EXCEPT !.kind = "shift", !.a = a, !.x = a, !.bits = bits,
                                 !.overflow_checks = overflow_checks]

\* x = x.add(b)
Add ==
    /\ UNCHANGED nonNNVars
    /\ nn.kind = "pair" /\ nn.hist = <<>>
    /\ nn' = [nn EXCEPT !.x = add(nn.x, nn.b), !.hist = <<"add">>]

\* x = x.sub(b)
Sub ==
    /\ UNCHANGED nonNNVars
    /\ nn.kind = "pair" /\ nn.hist = <<>>
    /\ nn' = [nn EXCEPT !.x = sub(nn.x, nn.b), !.hist = <<"sub">>]

\* x = x.sub(b), on the result of add
SubAfterAdd ==
    /\ UNCHANGED nonNNVars
    /\ nn.kind = "pair" /\ nn.hist = <<"add">>
    /\ nn' = [nn EXCEPT !.x = sub(nn.x, nn.b), !.hist = <<"add", "sub">>]

\* x = x.mult(b)
Mult ==
    /\ UNCHANGED nonNNVars
    /\ nn.kind = "mul" /\ nn.hist = <<>>
    /\ nn' = [nn EXCEPT !.x = mult(nn.x, nn.b), !.hist = <<"mult">>]

\* (x, r) = x.divmod(b); the call aborts on its assertion when b is zero
Divmod ==
    /\ UNCHANGED nonNNVars
    /\ nn.kind = "div" /\ nn.hist = <<>>
    /\ IF compare(nn.b, set_digit_count(zero, Len(nn.x))) = "Equal"
       THEN nn' = [nn EXCEPT !.panic = TRUE, !.hist = <<"divmod">>]
       ELSE LET qr == divmod(nn.x, nn.b)
            IN  nn' = [nn EXCEPT !.x = qr[1], !.r = qr[2], !.hist = <<"divmod">>]

\* bytes = x.encode()
Encode ==
    /\ UNCHANGED nonNNVars
    /\ nn.kind = "digits" /\ nn.hist = <<>>
    /\ nn' = [nn EXCEPT !.bytes = encode(nn.x), !.hist = <<"encode">>]

\* x = NNDigits::decode(bytes), on the result of encode
DecodeAfterEncode ==
    /\ UNCHANGED nonNNVars
    /\ nn.kind = "digits" /\ nn.hist = <<"encode">>
    /\ nn' = [nn EXCEPT !.x = decode(nn.bytes), !.hist = <<"encode", "decode">>]

\* x = NNDigits::decode(bytes)
Decode ==
    /\ UNCHANGED nonNNVars
    /\ nn.kind = "bytes" /\ nn.hist = <<>>
    /\ nn' = [nn EXCEPT !.a = nn.bytes, !.x = decode(nn.bytes), !.hist = <<"decode">>]

\* bytes = x.encode(), on the result of decode (a keeps the original bytes)
EncodeAfterDecode ==
    /\ UNCHANGED nonNNVars
    /\ nn.kind = "bytes" /\ nn.hist = <<"decode">>
    /\ nn' = [nn EXCEPT !.bytes = encode(nn.x), !.hist = <<"decode", "encode">>]

\* x = x.lshift(bits), in a build with or without overflow checks
Lshift ==
    /\ UNCHANGED nonNNVars
    /\ nn.kind = "shift" /\ nn.hist = <<>>
    /\ \E res \in {lshift(nn.x, nn.bits, nn.overflow_checks)} :
          nn' = [nn EXCEPT !.x = res.digits, !.panic = res.panic, !.hist = <<"lshift">>]

\* x = x.rshift(bits), in a build with or without overflow checks
Rshift ==
    /\ UNCHANGED nonNNVars
    /\ nn.kind = "shift" /\ nn.hist = <<>>
    /\ \E res \in {rshift(nn.x, nn.bits, nn.overflow_checks)} :
          nn' = [nn EXCEPT !.x = res.digits, !.panic = res.panic, !.hist = <<"rshift">>]

NextNN ==
    \/ Add \/ Sub \/ SubAfterAdd \/ Mult \/ Divmod
    \/ Encode \/ DecodeAfterEncode \/ Decode \/ EncodeAfterDecode
    \/ Lshift \/ Rshift

\* The integer a digit sequence stands for (least significant digit first).
RECURSIVE Value(_)
Value(x) == IF x = <<>> THEN 0 ELSE x[1] + DigitBase * Value(Tail(x))

RECURSIVE Pow(_, _)
Pow(b, k) == IF k = 0 THEN 1 ELSE b * Pow(b, k - 1)

\* (a * b) mod m without forming a * b
RECURSIVE MulModRef(_, _, _)
MulModRef(a, b, m) ==
    IF b = 0 THEN 0
    ELSE ((b % 2) * (a % m) + 2 * MulModRef(a, b \div 2, m)) % m

\* The carry of a + b into digit i: whether the digits below i overflow.
SumCarry(a, b, i) ==
    IF Value(SubSeq(a, 1, i - 1)) + Value(SubSeq(b, 1, i - 1)) >= Pow(DigitBase, i - 1)
    THEN 1 ELSE 0

\* b left-padded with zero bytes to a multiple of BytesPerDigit bytes
PadToDigits(b) ==
    Fill((BytesPerDigit - (Len(b) % BytesPerDigit)) % BytesPerDigit, 0) \o b

\* Byte j (0 the most significant) of digit d
DigitByte(d, j) == (d \div Pow(ByteBase, BytesPerDigit - 1 - j)) % ByteBase

\* The bytes of x: BytesPerDigit big-endian bytes per digit, most significant
\* digit first.
BigEndianBytes(x) ==
    [k \in 1 .. BytesPerDigit * Len(x) |->
        DigitByte(x[Len(x) - (k - 1) \div BytesPerDigit], (k - 1) % BytesPerDigit)]

\* C7: for equal-width n and nonzero d, n.divmod(d) = (q, r) with q and r of
\* the operands' digit count, r < d and q*d + r = n, so q = floor(n/d).
C7_DivmodQuotientRemainder ==
    (nn.hist = <<"divmod">> /\ ~nn.panic) =>
        /\ Len(nn.x) = Len(nn.a)
        /\ Len(nn.r) = Len(nn.a)
        /\ Value(nn.r) < Value(nn.b)
        /\ Value(nn.x) = Value(nn.a) \div Value(nn.b)
        /\ Value(nn.x) * Value(nn.b) + Value(nn.r) = Value(nn.a)

\* A two-digit dividend divided by a two-digit divisor, with a quotient above
\* one and a remainder.
C7_Witness ==
    /\ nn.hist = <<"divmod">> /\ ~nn.panic
    /\ Len(nn.a) = 2 /\ nn.b[2] /= 0
    /\ Value(nn.x) > 1 /\ Value(nn.r) > 0
    /\ Value(nn.x) * Value(nn.b) + Value(nn.r) = Value(nn.a)

\* C8 as stated: decode(x.encode()) = x for every NNDigits x, encode emits 4
\* big-endian bytes per digit, and decode(b).encode() is b left-padded with
\* zero bytes to a multiple of 4 bytes for every byte string b.
C8_CodecRoundTripAll ==
    /\ nn.hist = <<"encode">> => nn.bytes = BigEndianBytes(nn.a)
    /\ nn.hist = <<"encode", "decode">> => nn.x = nn.a
    /\ nn.hist = <<"decode", "encode">> => nn.bytes = PadToDigits(nn.a)

\* C8 amended: the same for every x of at least one digit and every byte
\* string of at least one byte; the empty NNDigits and the empty byte string
\* both come back as the single digit 0, that is as 4 zero bytes.
C8_CodecRoundTrip ==
    /\ nn.hist = <<"encode">> => nn.bytes = BigEndianBytes(nn.a)
    /\ nn.hist = <<"encode", "decode">> =>
          nn.x = (IF nn.a = <<>> THEN <<0>> ELSE nn.a)
    /\ nn.hist = <<"decode", "encode">> =>
          nn.bytes = (IF nn.a = <<>> THEN Fill(BytesPerDigit, 0) ELSE PadToDigits(nn.a))

\* A byte string one byte longer than a digit, with a nonzero first byte,
\* decoded and encoded again.
C8_Witness ==
    /\ nn.hist = <<"decode", "encode">>
    /\ Len(nn.a) = BytesPerDigit + 1 /\ nn.a[1] /= 0
    /\ Len(nn.x) = 2
    /\ nn.bytes = Fill(BytesPerDigit - 1, 0) \o nn.a

\* C9: a.add(b) has the operands' digit count and is (a + b) mod 2^(32n),
\* digit i being (a[i] + b[i] + carry into i) mod 2^32; and a.add(b).sub(b) = a.
C9_AddSubWraparound ==
    /\ nn.hist = <<"add">> =>
          /\ Len(nn.x) = Len(nn.a)
          /\ \A i \in 1 .. Len(nn.a) :
                nn.x[i] = (nn.a[i] + nn.b[i] + SumCarry(nn.a, nn.b, i)) % DigitBase
    /\ nn.hist = <<"add", "sub">> => nn.x = nn.a

\* add then sub where a digit plus the incoming carry wraps (DigitMax + 1) and
\* a digit minus the incoming borrow wraps (0 - 1), with a digit above them.
C9_Witness ==
    /\ nn.hist = <<"add", "sub">>
    /\ nn.a = <<DigitMax, DigitMax, 1>>
    /\ nn.b = <<1, 0, 0>>
    /\ nn.x = nn.a

\* C10 as stated: a.mult(b) has 2n digits holding the full product a*b.
C10_MultDoubleWidth ==
    nn.hist = <<"mult">> =>
        /\ Len(nn.x) = 2 * Len(nn.a)
        /\ Value(nn.x) = Value(nn.a) * Value(nn.b)

\* C10 amended: a.mult(b) has n digits holding (a*b) mod 2^(32n); mult itself
\* cuts its 2n-digit accumulator to n digits.
C10_MultTruncated ==
    nn.hist = <<"mult">> =>
        /\ Len(nn.x) = Len(nn.a)
        /\ Value(nn.x) = MulModRef(Value(nn.a), Value(nn.b), Pow(DigitBase, Len(nn.a)))

\* A product of two-digit operands that does not fit two digits.
C10_Witness ==
    /\ nn.hist = <<"mult">>
    /\ nn.a = <<DigitMax, DigitMax>> /\ nn.b = <<DigitMax, DigitMax>>
    /\ nn.x = <<1, 0>>

\* C11 as stated: for every bits in 0 .. 31, bits = 0 included, x.lshift(bits)
\* is (x * 2^bits) mod 2^(32n) and x.rshift(bits) is floor(x / 2^bits), both
\* of n digits, and neither call aborts.
C11_ShiftWholeRange ==
    nn.bits < DigitBits =>
        /\ nn.hist = <<"lshift">> =>
              /\ ~nn.panic
              /\ Len(nn.x) = Len(nn.a)
              /\ Value(nn.x) = MulModRef(Value(nn.a), Pow2(nn.bits),
                                         Pow(DigitBase, Len(nn.a)))
        /\ nn.hist = <<"rshift">> =>
              /\ ~nn.panic
              /\ Len(nn.x) = Len(nn.a)
              /\ Value(nn.x) = Value(nn.a) \div Pow2(nn.bits)

\* The same for the shift counts 1 .. 31 only, in either build.
ShiftNonZeroCount ==
    nn.bits > 0 => C11_ShiftWholeRange

(***************************************************************************)
(* rsa.rs                                                                  *)
(*                                                                         *)
(* A BigUint is a natural number.  Key sizes are scaled with the byte: the *)
(* reference key of the code (512 bits, 64 bytes) is a key of 28 bits, 14  *)
(* bytes, and the chunk lengths the code hard-codes are scaled with it;    *)
(* the padding overhead 11 is kept.                                        *)
(***************************************************************************)

\* MAX_RSA_MODULUS_BITS, scaled from 1024 (twice the reference key) to 56.
MAX_RSA_MODULUS_BITS == 56

\* (bits + 7) / 8
ModulusLen(bits) == (bits + ByteBits - 1) \div ByteBits

MAX_RSA_MODULUS_LEN == ModulusLen(MAX_RSA_MODULUS_BITS)

\* The literal 11 of the length checks.
PaddingOverhead == 11

\* input.chunks(48) of encrypt, scaled to the reference key's 14 bytes: as in
\* the code, less than the modulus length minus the overhead.
EncryptChunkLen == 2

\* input.chunks(64) of decrypt: the reference key's modulus length.
DecryptChunkLen == 14

\* Results: Ok(bytes), Err(RSAError) and the abort of the call by a panic.
Ok(bytes) == [kind |-> "Ok", err |-> "", bytes |-> bytes]

Err(e) == [kind |-> "Err", err |-> e, bytes |-> <<>>]

Panic(why) == [kind |-> "panic", err |-> why, bytes |-> <<>>]

\* The BigUint values the model tells apart are those below BigUintTop; every
\* modulus of the model is below it, and a larger value is held as BigUintTop.
BigUintTop == Pow2(30)

\* BigUint::from_bytes_be
RECURSIVE FromBytesBE(_, _, _)
FromBytesBE(b, k, acc) ==
    IF k > Len(b) THEN acc
    ELSE IF acc >= BigUintTop \div ByteBase THEN BigUintTop
    ELSE FromBytesBE(b, k + 1, acc * ByteBase + b[k])

from_bytes_be(b) == FromBytesBE(b, 1, 0)

\* BigUint::to_bytes_le: the bytes without leading zeros, [0] for zero
RECURSIVE to_bytes_le(_)
to_bytes_le(x) ==
    IF x < ByteBase THEN <<x>> ELSE <<x % ByteBase>> \o to_bytes_le(x \div ByteBase)

\* Vec::reverse
Reverse(s) == SubSeq([i \in 1 .. Len(s) |-> s[Len(s) + 1 - i]], 1, Len(s))

\* The big-endian bytes of x without the zeros that fill the width
ToBeUnpadded(x, bytes) == Reverse(to_bytes_le(x))

\* RSASerialize::to_be
to_be(x, bytes) ==
    LET le == to_bytes_le(x)
    IN  IF Len(le) > bytes
        THEN Reverse(SubSeq(le, 1, bytes))
        ELSE Reverse(le \o Fill(bytes - Len(le), 0))

\* (a * b) mod m for a, b < m, by doubling where a * b leaves the integers;
\* l holds the loop's a, b and the sum so far.
RECURSIVE MulModLoop(_, _)
MulModLoop(l, m) ==
    IF l.b = 0 THEN l.acc
    ELSE MulModLoop([a |-> (2 * l.a) % m, b |-> l.b \div 2,
                     acc |-> IF l.b % 2 = 1 THEN (l.acc + l.a) % m ELSE l.acc], m)

MulMod(a, b, m) ==
    IF m <= Pow2(15) THEN (a * b) % m
    ELSE MulModLoop([a |-> a % m, b |-> b, acc |-> 0], m)

\* BigUint::modpow(exp, modulus) for a nonzero modulus, by squaring; l holds
\* the loop's base, exp and the product so far.
RECURSIVE ModPowLoop(_, _)
ModPowLoop(l, m) ==
    IF l.exp = 0 THEN l.acc
    ELSE ModPowLoop([base |-> MulMod(l.base, l.base, m), exp |-> l.exp \div 2,
                     acc |-> IF l.exp % 2 = 1 THEN MulMod(l.acc, l.base, m) ELSE l.acc], m)

modpow(base, exp, m) == ModPowLoop([base |-> base % m, exp |-> exp, acc |-> 1 % m], m)

\* RSAPrivateKey::public_key
public_key(key) ==
    [bits |-> key.bits, modulus |-> key.modulus, exponent |-> key.public_exponent]

\* RSAPublicKey::rsa_public_block
rsa_public_block(key, input) ==
    LET m == from_bytes_be(input)
        n == key.modulus
        e == key.exponent
    IN  IF m >= n THEN Err("Data")
        ELSE Ok(to_be(modpow(m, e, n), ModulusLen(key.bits)))

\* rsa_private_block combining mP < mQ as mQ - mP, without p - t
PrivateCombineNoWrap(mp, mq, p) == IF mp >= mq THEN mp - mq ELSE mq - mp

\* t of rsa_private_block before the multiplication by qInv; -1 when
\* p.sub(t) underflows
PrivateCombine(mp, mq, p) ==
    IF mp >= mq THEN mp - mq
    ELSE IF mq - mp > p THEN -1 ELSE p - (mq - mp)

\* RSAPrivateKey::rsa_private_block
rsa_private_block(key, input) ==
    LET c == from_bytes_be(input)
        n == key.modulus
        p == key.prime[1]
        q == key.prime[2]
        dp == key.prime_exponent[1]
        dq == key.prime_exponent[2]
        qinv == key.coefficient
    IN  IF c >= n THEN Err("Data")
        ELSE IF p = 0 \/ q = 0 THEN Panic("attempt to divide by zero")
        ELSE LET cp == c % p
                 cq == c % q
                 mp == modpow(cp, dp, p)
                 mq == modpow(cq, dq, q)
                 t == PrivateCombine(mp, mq, p)
             IN  IF t < 0 THEN Panic("attempt to subtract with overflow")
                 ELSE Ok(to_be(((t * qinv) % p) * q + mq, ModulusLen(key.bits)))

\* The block built with its last filler byte left at the array's zero.
PkcsBlockShortFiller(block_type, filler, input) ==
    LET i == 2 + Len(filler)
    IN  [k \in 1 .. MAX_RSA_MODULUS_LEN |->
            IF k = 2 THEN block_type
            ELSE IF k > 2 /\ k < i THEN filler[k - 2]
            ELSE IF k > i + 1 /\ k - i - 1 <= Len(input) THEN input[k - i - 1]
            ELSE 0]

\* The block rsa_private_encrypt and rsa_public_encrypt build in the array
\* [0u8; MAX_RSA_MODULUS_LEN]: the type byte, the filler, the separator and
\* the input copied after it as far as the array reaches.
PkcsBlock(block_type, filler, input) ==
    LET i == 2 + Len(filler)
    IN  [k \in 1 .. MAX_RSA_MODULUS_LEN |->
            IF k = 2 THEN block_type
            ELSE IF k > 2 /\ k <= i THEN filler[k - 2]
            ELSE IF k > i + 1 /\ k - i - 1 <= Len(input) THEN input[k - i - 1]
            ELSE 0]

\* RSAPrivateKey::rsa_private_encrypt
rsa_private_encrypt(key, input) ==
    LET modulus_len == ModulusLen(key.bits)
        i == modulus_len - Len(input) - 1
    IN  IF Len(input) + PaddingOverhead > modulus_len THEN Err("Len")
        ELSE IF i >= MAX_RSA_MODULUS_LEN THEN Panic("index out of bounds")
        ELSE IF modulus_len > MAX_RSA_MODULUS_LEN THEN Panic("range end index out of range")
        ELSE rsa_private_block(key,
                 SubSeq(PkcsBlock(1, Fill(i - 2, ByteMax), input), 1, modulus_len))

\* Index (0-based) at which the scan of pkcs_block[2..len - 1] stops: the first
\* byte for which stop holds, else the last byte scanned, else 0 when the
\* range is empty.
RECURSIVE ScanFiller(_, _, _)
ScanFiller(pkcs_block, stop, k) ==
    IF Len(pkcs_block) - 1 <= 2 THEN 0
    ELSE IF k = Len(pkcs_block) - 2 \/ pkcs_block[k + 1] \in stop THEN k
    ELSE ScanFiller(pkcs_block, stop, k + 1)

\* The checks of rsa_public_decrypt with the block type left unchecked.
PublicUnpadAnyType(modulus_len, block) ==
    IF block.kind /= "Ok" THEN block
    ELSE IF Len(block.bytes) /= modulus_len THEN Err("Len")
    ELSE IF Len(block.bytes) < 3 THEN Panic("index out of bounds")
    ELSE IF block.bytes[1] /= 0 THEN Err("Data")
    ELSE LET separator_start == ScanFiller(block.bytes, Bytes \ {ByteMax}, 2)
             i == separator_start + 1
         IN  IF block.bytes[separator_start + 1] /= 0 THEN Err("Data")
             ELSE IF modulus_len - i + PaddingOverhead > modulus_len THEN Err("Data")
             ELSE Ok(SubSeq(block.bytes, i + 1, Len(block.bytes)))

\* rsa_public_decrypt after the block transform: the checks of block type 1
\* on its result
PublicUnpad(modulus_len, block) ==
    IF block.kind /= "Ok" THEN block
    ELSE IF Len(block.bytes) /= modulus_len THEN Err("Len")
    ELSE IF Len(block.bytes) = 0 THEN Panic("index out of bounds")
    ELSE IF block.bytes[1] /= 0 THEN Err("Data")
    ELSE IF Len(block.bytes) = 1 THEN Panic("index out of bounds")
    ELSE IF block.bytes[2] /= 1 THEN Err("Data")
    ELSE IF Len(block.bytes) = 2 THEN Panic("slice index starts at 2 but ends at 1")
    ELSE LET separator_start == ScanFiller(block.bytes, Bytes \ {ByteMax}, 2)
             i == separator_start + 1
             output_len == modulus_len - i
         IN  IF block.bytes[separator_start + 1] /= 0 THEN Err("Data")
             ELSE IF output_len + PaddingOverhead > modulus_len THEN Err("Data")
             ELSE Ok(SubSeq(block.bytes, i + 1, Len(block.bytes)))

\* RSAPublicKey::rsa_public_decrypt
rsa_public_decrypt(key, input) ==
    IF Len(input) > ModulusLen(key.bits) THEN Err("Len")
    ELSE PublicUnpad(ModulusLen(key.bits), rsa_public_block(key, input))

\* rsa_private_decrypt after the block transform: the checks of block type 2
\* on its result
PrivateUnpad(modulus_len, block) ==
    IF block.kind /= "Ok" THEN block
    ELSE IF Len(block.bytes) /= modulus_len THEN Err("Len")
    ELSE IF Len(block.bytes) = 0 THEN Panic("index out of bounds")
    ELSE IF block.bytes[1] /= 0 THEN Err("Data")
    ELSE IF Len(block.bytes) = 1 THEN Panic("index out of bounds")
    ELSE IF block.bytes[2] /= 2 THEN Err("Data")
    ELSE IF Len(block.bytes) = 2 THEN Panic("slice index starts at 2 but ends at 1")
    ELSE LET separator_start == ScanFiller(block.bytes, {0}, 2)
             i == separator_start + 1
             output_len == modulus_len - i
         IN  IF i > modulus_len THEN Err("Data")
             ELSE IF output_len + PaddingOverhead > modulus_len THEN Err("Data")
             ELSE Ok(SubSeq(block.bytes, i + 1, Len(block.bytes)))

\* RSAPrivateKey::rsa_private_decrypt
rsa_private_decrypt(key, input) ==
    IF Len(input) > ModulusLen(key.bits) THEN Err("Len")
    ELSE PrivateUnpad(ModulusLen(key.bits), rsa_private_block(key, input))

\* One turn of the inner loop of rsa_public_encrypt on what generate_bytes(1)
\* returned: the byte if it is not zero
RECURSIVE DrawNonZero(_)
TakeNonZero(g) ==
    IF ~g.res.ok THEN [ok |-> FALSE, err |-> g.res.err, byte |-> 0, r |-> g.r]
    ELSE IF g.res.block[1] /= 0
         THEN [ok |-> TRUE, err |-> "", byte |-> g.res.block[1], r |-> g.r]
         ELSE DrawNonZero(g.r)

\* The inner loop of rsa_public_encrypt: generate_bytes(1) until the byte is
\* not zero.  The struct afterwards, and the byte or the error.
DrawNonZero(r) == TakeNonZero(generate_bytes(r, 1))

\* The outer loop of rsa_public_encrypt over the filler's count bytes; f holds
\* the filler so far and the struct.
RECURSIVE RandomFiller(_, _)
PutFiller(f, count, d) ==
    IF ~d.ok THEN [ok |-> FALSE, err |-> d.err, filler |-> f.filler, r |-> d.r]
    ELSE RandomFiller([ok |-> TRUE, err |-> "", filler |-> Append(f.filler, d.byte),
                       r |-> d.r], count)

RandomFiller(f, count) ==
    IF Len(f.filler) >= count THEN f ELSE PutFiller(f, count, DrawNonZero(f.r))

\* rsa_public_encrypt once the filler f is drawn
PublicEncryptFilled(key, input, f) ==
    LET modulus_len == ModulusLen(key.bits)
        i == modulus_len - Len(input) - 1
    IN  IF ~f.ok THEN [res |-> Err(f.err), r |-> f.r]
        ELSE IF i >= MAX_RSA_MODULUS_LEN
             THEN [res |-> Panic("index out of bounds"), r |-> f.r]
        ELSE IF modulus_len > MAX_RSA_MODULUS_LEN
             THEN [res |-> Panic("range end index out of range"), r |-> f.r]
        ELSE [res |-> rsa_public_block(key,
                         SubSeq(PkcsBlock(2, f.filler, input), 1, modulus_len)),
              r |-> f.r]

\* RSAPublicKey::rsa_public_encrypt: the result and the RandomStruct afterwards
rsa_public_encrypt(key, input, r) ==
    LET modulus_len == ModulusLen(key.bits)
        i == modulus_len - Len(input) - 1
    IN  IF Len(input) + PaddingOverhead > modulus_len THEN [res |-> Err("Len"), r |-> r]
        ELSE IF i > MAX_RSA_MODULUS_LEN
             THEN [res |-> Panic("range end index out of range"), r |-> r]
        ELSE PublicEncryptFilled(key, input,
                 RandomFiller([ok |-> TRUE, err |-> "", filler |-> <<>>, r |-> r], i - 2))

\* input.chunks_exact(chunk_size): a shorter last chunk is left out
RECURSIVE ChunksExact(_, _, _)
ChunksExact(input, chunk_size, from) ==
    IF from + chunk_size > Len(input) THEN <<>>
    ELSE <<SubSeq(input, from + 1, from + chunk_size)>>
            \o ChunksExact(input, chunk_size, from + chunk_size)

\* input.chunks(chunk_size) from the 0-based offset from
RECURSIVE Chunks(_, _, _)
Chunks(input, chunk_size, from) ==
    IF from >= Len(input) THEN <<>>
    ELSE <<SubSeq(input, from + 1, Min(from + chunk_size, Len(input)))>>
            \o Chunks(input, chunk_size, from + chunk_size)

\* result.extend(&chunk) of the encrypt and decrypt loops, or the chunk's
\* error in place of the result (the ? operator)
Extend(result, chunk) ==
    IF chunk.kind /= "Ok" THEN chunk ELSE Ok(result.bytes \o chunk.bytes)

\* The loop of RSAPrivateKey::encrypt over the chunks from the k-th on
RECURSIVE PrivateEncryptLoop(_, _, _, _)
PrivateEncryptLoop(key, chunks, k, result) ==
    IF k > Len(chunks) \/ result.kind /= "Ok" THEN result
    ELSE PrivateEncryptLoop(key, chunks, k + 1,
                            Extend(result, rsa_private_encrypt(key, chunks[k])))

\* RSAPrivateKey::encrypt
private_encrypt(key, input) ==
    PrivateEncryptLoop(key, Chunks(input, EncryptChunkLen, 0), 1, Ok(<<>>))

\* The loop of RSAPublicKey::decrypt
RECURSIVE PublicDecryptLoop(_, _, _, _)
PublicDecryptLoop(key, chunks, k, result) ==
    IF k > Len(chunks) \/ result.kind /= "Ok" THEN result
    ELSE PublicDecryptLoop(key, chunks, k + 1,
                           Extend(result, rsa_public_decrypt(key, chunks[k])))

\* RSAPublicKey::decrypt
public_decrypt(key, input) ==
    PublicDecryptLoop(key, Chunks(input, DecryptChunkLen, 0), 1, Ok(<<>>))

\* result.extend(&chunk) of RSAPublicKey::encrypt, with the RandomStruct
ExtendDrawn(result, e) ==
    IF e.res.kind /= "Ok" THEN e
    ELSE [res |-> Ok(result.res.bytes \o e.res.bytes), r |-> e.r]

\* The loop of RSAPublicKey::encrypt: the result and the RandomStruct afterwards
RECURSIVE PublicEncryptLoop(_, _, _, _)
PublicEncryptLoop(key, chunks, k, result) ==
    IF k > Len(chunks) \/ result.res.kind /= "Ok" THEN result
    ELSE PublicEncryptLoop(key, chunks, k + 1,
             ExtendDrawn(result, rsa_public_encrypt(key, chunks[k], result.r)))

\* RSAPublicKey::encrypt
public_encrypt(key, input, r) ==
    PublicEncryptLoop(key, Chunks(input, EncryptChunkLen, 0), 1,
                      [res |-> Ok(<<>>), r |-> r])

\* The loop of RSAPrivateKey::decrypt
RECURSIVE PrivateDecryptLoop(_, _, _, _)
PrivateDecryptLoop(key, chunks, k, result) ==
    IF k > Len(chunks) \/ result.kind /= "Ok" THEN result
    ELSE PrivateDecryptLoop(key, chunks, k + 1,
                            Extend(result, rsa_private_decrypt(key, chunks[k])))

\* RSAPrivateKey::decrypt
private_decrypt(key, input) ==
    PrivateDecryptLoop(key, Chunks(input, DecryptChunkLen, 0), 1, Ok(<<>>))

(***************************************************************************)
(* The key operations as a state machine: one key, one input, the calls    *)
(* made on them (hist), the result of the first call and of the last one.  *)
(***************************************************************************)

\* Longest plaintext of which every byte string is an input.
MaxMsgLen == 3

\* Longest plaintext of the patterned inputs, which span several chunks.
MaxPatternLen == 6

\* Longest input of rsa_private_block of which every byte string is an input.
MaxBlockLen == 4

\* struct RSAPrivateKey
PrivateKey(bits, modulus, public_exponent, exponent, p, q, dp, dq, coefficient) ==
    [bits |-> bits, modulus |-> modulus, public_exponent |-> public_exponent,
     exponent |-> exponent, prime |-> <<p, q>>, prime_exponent |-> <<dp, dq>>,
     coefficient |-> coefficient]

\* Key pairs of the reference size, of DecryptChunkLen bytes (e = 65537 and
\* e = 3, the exponents generate_pem_keys chooses from).
ReferenceKeys ==
    { PrivateKey(28, 219194161, 65537, 143978273, 16381, 13381, 14453, 9473, 5575),
      PrivateKey(27, 98470651, 3, 65633803, 10979, 8969, 7319, 5979, 650) }

\* Key pairs of other sizes: of 15 bytes (above the reference size) and of 12.
OtherKeys ==
    { PrivateKey(30, 906293617, 3, 604155467, 32717, 27701, 21811, 18467, 11147),
      PrivateKey(24, 14566109, 65537, 518033, 4079, 3571, 127, 383, 2176) }

\* Key pairs small enough for every c < n to be an input.
TinyKeys ==
    { PrivateKey(6, 35, 5, 5, 7, 5, 5, 1, 3),
      PrivateKey(8, 143, 7, 103, 13, 11, 7, 3, 6) }

ValidKeys == ReferenceKeys \cup OtherKeys \cup TinyKeys

\* Keys RSAPrivateKey::decode returns from bytes that are not a key pair: a
\* bits field that is not the modulus's, a zero prime, a first prime below the
\* second.
DecodedKeys ==
    LET k == PrivateKey(28, 219194161, 65537, 143978273, 16381, 13381, 14453, 9473, 5575)
        t == PrivateKey(8, 143, 7, 103, 13, 11, 7, 3, 6)
    IN  { [k EXCEPT !.bits = b] :
              b \in {0, ByteBits, 2 * ByteBits, 3 * ByteBits,
                     MAX_RSA_MODULUS_BITS, MAX_RSA_MODULUS_BITS + 1,
                     2 * MAX_RSA_MODULUS_BITS} }
          \cup { [t EXCEPT !.bits = b] : b \in {0, ByteBits, 2 * ByteBits} }
          \cup { [k EXCEPT !.prime = <<0, 13381>>],
                 [k EXCEPT !.prime = <<16381, 0>>],
                 [t EXCEPT !.prime = <<3, 11>>, !.prime_exponent = <<1, 3>>] }

ByteStringsUpTo(n) == UNION { [1 .. k -> Bytes] : k \in 0 .. n }

\* The bytes from, from + 1, ..., wrapping as u8 does
Pattern(n, from) == [i \in 1 .. n |-> (from + i - 1) % ByteBase]

Messages ==
    ByteStringsUpTo(MaxMsgLen)
        \cup { Pattern(n, from) : n \in (MaxMsgLen + 1) .. MaxPatternLen, from \in {0, ByteMax} }

\* Inputs of rsa_private_block: every short byte string, and for the larger
\* keys blocks of the modulus length.
BlockSamples(n) ==
    { [i \in 1 .. n |-> (a * i + b) % ByteBase] : a \in Bytes, b \in Bytes }

BlockInputs(key) ==
    IF key \in TinyKeys THEN ByteStringsUpTo(MaxBlockLen)
    ELSE ByteStringsUpTo(1) \cup BlockSamples(ModulusLen(key.bits))

\* What follows the two leading bytes in a padded block of n + 2 bytes: a
\* filler of j equal bytes, the zero separator and a payload; and bodies with
\* no zero byte at all.
PaddedBodies(n) ==
    { SubSeq(Fill(j, v) \o <<0>> \o Pattern(n, from), 1, n) :
          v \in {1, ByteMax}, j \in {0, 7, 8, 9, n - 1}, from \in {0, 1} }
        \cup { Fill(n, v) : v \in Bytes \ {0} }
        \cup { Fill(n - 1, ByteMax) \o <<1>>,
               Fill(n - 4, ByteMax) \o <<1, 2, 3, 1>> }

\* Blocks of n bytes a decrypt may find after its block transform: any two
\* leading bytes in front of those bodies.
PaddedBlocks(n) ==
    { <<b0, block_type>> \o body :
          b0 \in {0, 1}, block_type \in Bytes, body \in PaddedBodies(n - 2) }

\* Blocks a caller seeds the RandomStruct with before a public-key encrypt.
SeedBlocks ==
    { [i \in 1 .. RANDOM_BYTES_NEEDED |-> (i * b) % ByteBase] : b \in 1 .. 2 }
        \cup { [i \in 1 .. RANDOM_BYTES_NEEDED - 1 |-> i % ByteBase] }

InitRSA ==
    /\ \/ \E b \in SeedBlocks :
             /\ rs = random_update(new, b)
             /\ seeded = Len(b)
             /\ finalized = FALSE
       \/ /\ rs = random_final(new)
          /\ seeded = 0
          /\ finalized = TRUE
    /\ ret = NoCall
    /\ calls = 0
    /\ origin = "new"
    /\ nn = IdleNN
    /\ kg = IdleKeygen
    /\ \/ \E key \in ReferenceKeys \cup OtherKeys : \E input \in Messages :
             rsa = [IdleRSA EXCEPT !.kind = "message", !.key = key, !.input = input]
       \/ \E key \in ValidKeys : \E input \in BlockInputs(key) :
             rsa = [IdleRSA EXCEPT !.kind = "block", !.key = key, !.input = input]
       \/ \E key \in DecodedKeys : \E input \in ByteStringsUpTo(MaxMsgLen) :
             rsa = [IdleRSA EXCEPT !.kind = "decoded", !.key = key, !.input = input]
       \/ \E key \in ReferenceKeys : \E block \in PaddedBlocks(ModulusLen(key.bits)) :
             /\ from_bytes_be(block) < key.modulus
             /\ \/ rsa = [IdleRSA EXCEPT
                             !.kind = "for_private_decrypt", !.key = key, !.block = block,
                             !.input = rsa_public_block(public_key(key), block).bytes]
                \/ rsa = [IdleRSA EXCEPT
                             !.kind = "for_public_decrypt", !.key = key, !.block = block,
                             !.input = rsa_private_block(key, block).bytes]

First(op, res) ==
    [rsa EXCEPT !.hist = <<op>>, !.first = res, !.res = res]

\* private_key.encrypt(input)
PrivateEncrypt ==
    /\ rsa.kind \in {"message", "decoded"} /\ rsa.hist = <<>>
    /\ rsa' = First("private_encrypt", private_encrypt(rsa.key, rsa.input))
    /\ UNCHANGED nonRSAVars
    /\ UNCHANGED rs

\* public_key.decrypt(encrypted) of what private_key.encrypt returned
PublicDecryptEncrypted ==
    /\ rsa.hist = <<"private_encrypt">> /\ rsa.res.kind = "Ok"
    /\ rsa' = [rsa EXCEPT !.hist = Append(@, "public_decrypt"),
                          !.res = public_decrypt(public_key(rsa.key), rsa.res.bytes)]
    /\ UNCHANGED nonRSAVars
    /\ UNCHANGED rs

\* public_key.encrypt(input, random_struct)
PublicEncrypt ==
    /\ rsa.kind \in {"message", "decoded"} /\ rsa.hist = <<>>
    /\ \E e \in {public_encrypt(public_key(rsa.key), rsa.input, rs)} :
          /\ rsa' = First("public_encrypt", e.res)
          /\ rs' = e.r
    /\ UNCHANGED nonRSAVars

\* public_key.rsa_public_encrypt(input, random_struct)
RsaPublicEncrypt ==
    /\ rsa.kind \in {"message", "decoded"} /\ rsa.hist = <<>>
    /\ \E e \in {rsa_public_encrypt(public_key(rsa.key), rsa.input, rs)} :
          /\ rsa' = First("rsa_public_encrypt", e.res)
          /\ rs' = e.r
    /\ UNCHANGED nonRSAVars

\* private_key.decrypt(encrypted) of what public_key.encrypt returned
PrivateDecryptEncrypted ==
    /\ rsa.hist = <<"public_encrypt">> /\ rsa.res.kind = "Ok"
    /\ rsa' = [rsa EXCEPT !.hist = Append(@, "private_decrypt"),
                          !.res = private_decrypt(rsa.key, rsa.res.bytes)]
    /\ UNCHANGED nonRSAVars
    /\ UNCHANGED rs

\* public_key.decrypt(input)
PublicDecrypt ==
    /\ rsa.kind \in {"decoded", "for_public_decrypt"} /\ rsa.hist = <<>>
    /\ rsa' = First("public_decrypt", public_decrypt(public_key(rsa.key), rsa.input))
    /\ UNCHANGED nonRSAVars
    /\ UNCHANGED rs

\* private_key.decrypt(input)
PrivateDecrypt ==
    /\ rsa.kind \in {"decoded", "for_private_decrypt"} /\ rsa.hist = <<>>
    /\ rsa' = First("private_decrypt", private_decrypt(rsa.key, rsa.input))
    /\ UNCHANGED nonRSAVars
    /\ UNCHANGED rs

\* private_key.rsa_private_encrypt(input)
RsaPrivateEncrypt ==
    /\ rsa.kind \in {"decoded", "message"} /\ rsa.hist = <<>>
    /\ rsa' = First("rsa_private_encrypt", rsa_private_encrypt(rsa.key, rsa.input))
    /\ UNCHANGED nonRSAVars
    /\ UNCHANGED rs

\* public_key.rsa_public_decrypt(block) of what rsa_private_encrypt returned
RsaPublicDecryptEncrypted ==
    /\ rsa.hist = <<"rsa_private_encrypt">> /\ rsa.res.kind = "Ok"
    /\ rsa' = [rsa EXCEPT !.hist = Append(@, "rsa_public_decrypt"),
                          !.res = rsa_public_decrypt(public_key(rsa.key), rsa.res.bytes)]
    /\ UNCHANGED nonRSAVars
    /\ UNCHANGED rs

\* private_key.rsa_private_decrypt(input)
RsaPrivateDecrypt ==
    /\ rsa.kind \in {"decoded", "for_private_decrypt"} /\ rsa.hist = <<>>
    /\ rsa' = First("rsa_private_decrypt", rsa_private_decrypt(rsa.key, rsa.input))
    /\ UNCHANGED nonRSAVars
    /\ UNCHANGED rs

\* private_key.rsa_private_block(input)
RsaPrivateBlock ==
    /\ rsa.kind \in {"block", "decoded"} /\ rsa.hist = <<>>
    /\ rsa' = First("rsa_private_block", rsa_private_block(rsa.key, rsa.input))
    /\ UNCHANGED nonRSAVars
    /\ UNCHANGED rs

\* public_key.rsa_public_decrypt(input)
RsaPublicDecrypt ==
    /\ rsa.kind \in {"decoded", "for_public_decrypt"} /\ rsa.hist = <<>>
    /\ rsa' = First("rsa_public_decrypt",
                    rsa_public_decrypt(public_key(rsa.key), rsa.input))
    /\ UNCHANGED nonRSAVars
    /\ UNCHANGED rs

\* public_key.rsa_public_block(input)
RsaPublicBlock ==
    /\ rsa.kind \in {"block", "decoded"} /\ rsa.hist = <<>>
    /\ rsa' = First("rsa_public_block", rsa_public_block(public_key(rsa.key), rsa.input))
    /\ UNCHANGED nonRSAVars
    /\ UNCHANGED rs

NextRSA ==
    \/ RsaPublicEncrypt
    \/ RsaPublicDecryptEncrypted
    \/ RsaPublicBlock
    \/ RsaPublicDecrypt
    \/ PrivateEncrypt
    \/ PublicDecryptEncrypted
    \/ PublicEncrypt
    \/ PrivateDecryptEncrypted
    \/ PublicDecrypt
    \/ PrivateDecrypt
    \/ RsaPrivateEncrypt
    \/ RsaPrivateDecrypt
    \/ RsaPrivateBlock

\* Number of bits of n
RECURSIVE BitLength(_)
BitLength(n) == IF n = 0 THEN 0 ELSE 1 + BitLength(n \div 2)

\* A key pair as generate_pem_keys builds it, but for the primality of p and
\* q (the keys of ValidKeys are built from primes): n = p*q with p > q, the
\* bit length of n, e*d = 1 mod (p-1)(q-1), dP, dQ and qInv.
WellFormed(key) ==
    LET p == key.prime[1]
        q == key.prime[2]
    IN  /\ q > 1 /\ p > q
        /\ key.modulus = p * q
        /\ key.bits = BitLength(key.modulus)
        /\ MulMod(key.public_exponent % ((p - 1) * (q - 1)), key.exponent,
                  (p - 1) * (q - 1)) = 1
        /\ key.prime_exponent[1] = key.exponent % (p - 1)
        /\ key.prime_exponent[2] = key.exponent % (q - 1)
        /\ (key.coefficient * q) % p = 1

\* Number of chunks encrypt cuts n bytes into.
EncryptChunks(n) == (n + EncryptChunkLen - 1) \div EncryptChunkLen

\* C3: for every valid key pair of a supported size (bits up to
\* MAX_RSA_MODULUS_BITS) and every plaintext m, private_key.encrypt(m) and
\* public_key.encrypt(m, seeded generator) succeed, and
\* public_key.decrypt(private_key.encrypt(m)) = Ok(m) and
\* private_key.decrypt(public_key.encrypt(m)) = Ok(m).
C3_RoundTripEveryKeySize ==
    (WellFormed(rsa.key) /\ rsa.key.bits <= MAX_RSA_MODULUS_BITS) =>
        /\ rsa.hist = <<"private_encrypt">> => rsa.res.kind = "Ok"
        /\ rsa.hist = <<"private_encrypt", "public_decrypt">> => rsa.res = Ok(rsa.input)
        /\ (rsa.hist = <<"public_encrypt">> /\ seeded >= RANDOM_BYTES_NEEDED) =>
              rsa.res.kind = "Ok"
        /\ rsa.hist = <<"public_encrypt", "private_decrypt">> => rsa.res = Ok(rsa.input)

\* C4: for a valid key pair of the reference size (modulus length
\* DecryptChunkLen, the 64 bytes of a 512-bit key) and every input,
\* private_key.encrypt gives one block of the modulus length per chunk and
\* public_key.decrypt of it gives back exactly the input.
C4_ReferenceKeyRoundTrip ==
    (WellFormed(rsa.key) /\ ModulusLen(rsa.key.bits) = DecryptChunkLen) =>
        /\ rsa.hist = <<"private_encrypt">> =>
              /\ rsa.res.kind = "Ok"
              /\ Len(rsa.res.bytes) = DecryptChunkLen * EncryptChunks(Len(rsa.input))
        /\ rsa.hist = <<"private_encrypt", "public_decrypt">> => rsa.res = Ok(rsa.input)

\* The bytes 0, 1, 2, ... over three chunks, the last one shorter, encrypted
\* into three blocks and decrypted.
C4_Witness ==
    /\ rsa.hist = <<"private_encrypt", "public_decrypt">>
    /\ ModulusLen(rsa.key.bits) = DecryptChunkLen
    /\ rsa.input = Pattern(2 * EncryptChunkLen + 1, 0)
    /\ Len(rsa.first.bytes) = 3 * DecryptChunkLen
    /\ rsa.res = Ok(rsa.input)

\* C5: for every key decode can return and every input, encrypt, decrypt,
\* rsa_private_encrypt, rsa_private_decrypt and rsa_private_block return Ok
\* or Err and never panic.
C5_NoKeyOperationPanics ==
    rsa.hist /= <<>> => rsa.res.kind \in {"Ok", "Err"}

\* C6: for every well-formed private key and every input c < n,
\* rsa_private_block returns m = h*q + mQ with
\* h = (((mP - mQ) mod p) * qInv) mod p, and m = c^d mod n.
C6_CrtEqualsModPow ==
    (/\ rsa.hist = <<"rsa_private_block">>
     /\ WellFormed(rsa.key)
     /\ from_bytes_be(rsa.input) < rsa.key.modulus) =>
        LET c == from_bytes_be(rsa.input)
            p == rsa.key.prime[1]
            q == rsa.key.prime[2]
            mP == modpow(c % p, rsa.key.prime_exponent[1], p)
            mQ == modpow(c % q, rsa.key.prime_exponent[2], q)
            h == (((mP - mQ) % p) * rsa.key.coefficient) % p
        IN  /\ rsa.res = Ok(to_be(h * q + mQ, ModulusLen(rsa.key.bits)))
            /\ h * q + mQ = modpow(c, rsa.key.exponent, rsa.key.modulus)

\* A block of the modulus length under a reference key with mP < mQ.
C6_Witness ==
    /\ rsa.hist = <<"rsa_private_block">>
    /\ WellFormed(rsa.key)
    /\ ModulusLen(rsa.key.bits) = DecryptChunkLen
    /\ Len(rsa.input) = DecryptChunkLen
    /\ from_bytes_be(rsa.input) < rsa.key.modulus
    /\ modpow(from_bytes_be(rsa.input) % rsa.key.prime[1],
              rsa.key.prime_exponent[1], rsa.key.prime[1])
         < modpow(from_bytes_be(rsa.input) % rsa.key.prime[2],
                  rsa.key.prime_exponent[2], rsa.key.prime[2])
    /\ rsa.res.kind = "Ok"
    /\ from_bytes_be(rsa.res.bytes)
         = modpow(from_bytes_be(rsa.input), rsa.key.exponent, rsa.key.modulus)

\* C16: rsa_public_block and rsa_private_block return Err(Data) whenever the
\* input read as a big-endian integer is >= the modulus (for every key); for
\* a well-formed key and a smaller input they return exactly (bits+7)/8
\* bytes whose big-endian value is the result, input^e mod n and input^d mod n.
C16_BlockRangeCheck ==
    LET c == from_bytes_be(rsa.input)
        n == rsa.key.modulus
    IN  /\ (rsa.hist \in {<<"rsa_public_block">>, <<"rsa_private_block">>} /\ c >= n) =>
              rsa.res = Err("Data")
        /\ (rsa.hist = <<"rsa_public_block">> /\ c < n /\ WellFormed(rsa.key)) =>
              /\ rsa.res.kind = "Ok"
              /\ Len(rsa.res.bytes) = ModulusLen(rsa.key.bits)
              /\ from_bytes_be(rsa.res.bytes) = modpow(c, rsa.key.public_exponent, n)
        /\ (rsa.hist = <<"rsa_private_block">> /\ c < n /\ WellFormed(rsa.key)) =>
              /\ rsa.res.kind = "Ok"
              /\ Len(rsa.res.bytes) = ModulusLen(rsa.key.bits)
              /\ from_bytes_be(rsa.res.bytes) = modpow(c, rsa.key.exponent, n)

\* A public block transform under a reference key whose result is short of
\* the modulus length and comes back with a zero byte in front.
C16_Witness ==
    /\ rsa.hist = <<"rsa_public_block">>
    /\ WellFormed(rsa.key)
    /\ ModulusLen(rsa.key.bits) = DecryptChunkLen
    /\ from_bytes_be(rsa.input) > 1
    /\ from_bytes_be(rsa.input) < rsa.key.modulus
    /\ rsa.res.kind = "Ok"
    /\ Len(rsa.res.bytes) = DecryptChunkLen
    /\ rsa.res.bytes[1] = 0
    /\ from_bytes_be(rsa.res.bytes) > 1

\* An input of the modulus length that is not below the modulus, refused by
\* the private block transform.
BlockAboveModulusRefused ==
    /\ rsa.hist = <<"rsa_private_block">>
    /\ WellFormed(rsa.key)
    /\ Len(rsa.input) = ModulusLen(rsa.key.bits)
    /\ rsa.res = Err("Data")

\* Number of chunks of size bytes that n bytes are cut into.
ChunkCount(n, size) == (n + size - 1) \div size

\* C17: with modulus_bytes = (bits+7)/8 of the key in use, encrypt (private
\* and public) cuts the plaintext into chunks of modulus_bytes - 11 bytes, one
\* block of modulus_bytes bytes each, and decrypt (public and private) cuts
\* the ciphertext into chunks of exactly modulus_bytes bytes.
C17_ChunksFollowKeySize ==
    LET modulus_bytes == ModulusLen(rsa.key.bits)
    IN  (WellFormed(rsa.key) /\ modulus_bytes > PaddingOverhead) =>
            /\ rsa.hist = <<"private_encrypt">> =>
                  rsa.res = PrivateEncryptLoop(rsa.key,
                                Chunks(rsa.input, modulus_bytes - PaddingOverhead, 0),
                                1, Ok(<<>>))
            /\ (rsa.hist = <<"public_encrypt">> /\ seeded >= RANDOM_BYTES_NEEDED) =>
                  /\ rsa.res.kind = "Ok"
                  /\ Len(rsa.res.bytes)
                        = modulus_bytes * ChunkCount(Len(rsa.input),
                                                     modulus_bytes - PaddingOverhead)
            /\ rsa.hist = <<"private_encrypt", "public_decrypt">> =>
                  rsa.res = PublicDecryptLoop(public_key(rsa.key),
                                Chunks(rsa.first.bytes, modulus_bytes, 0), 1, Ok(<<>>))
            /\ rsa.hist = <<"public_encrypt", "private_decrypt">> =>
                  rsa.res = PrivateDecryptLoop(rsa.key,
                                Chunks(rsa.first.bytes, modulus_bytes, 0), 1, Ok(<<>>))

\* The block the decrypt under check finds after its block transform, when
\* the input was made from one.
PaddedInput ==
    /\ rsa.block /= <<>>
    /\ rsa.hist \in {<<"rsa_private_decrypt">>, <<"private_decrypt">>,
                      <<"rsa_public_decrypt">>, <<"public_decrypt">>}

PrivateDecryptCalled == rsa.hist \in {<<"rsa_private_decrypt">>, <<"private_decrypt">>}

PublicDecryptCalled == rsa.hist \in {<<"rsa_public_decrypt">>, <<"public_decrypt">>}

NoSeparator(block) == \A i \in 3 .. Len(block) : block[i] /= 0

\* C18: when the transformed block has the right leading bytes (00 02 for
\* private-key decrypt, 00 01 for public-key decrypt) and no zero byte after
\* the type byte, the decrypt returns Err(Data) and no bytes of the block.
C18_NoSeparatorRejected ==
    (PaddedInput /\ rsa.block[1] = 0 /\ NoSeparator(rsa.block)) =>
        /\ (PrivateDecryptCalled /\ rsa.block[2] = 2) => rsa.res = Err("Data")
        /\ (PublicDecryptCalled /\ rsa.block[2] = 1) => rsa.res = Err("Data")

\* The same for public-key decrypt alone.
PublicNoSeparatorRejected ==
    PublicDecryptCalled => C18_NoSeparatorRejected

\* C19 as stated: private-key decrypt accepts only blocks 00 01 and
\* public-key decrypt only blocks 00 02; other leading bytes give Err(Data).
C19_BlockTypeAsStated ==
    PaddedInput =>
        /\ PrivateDecryptCalled =>
              /\ rsa.res.kind = "Ok" => (rsa.block[1] = 0 /\ rsa.block[2] = 1)
              /\ (rsa.block[1] /= 0 \/ rsa.block[2] /= 1) => rsa.res = Err("Data")
        /\ PublicDecryptCalled =>
              /\ rsa.res.kind = "Ok" => (rsa.block[1] = 0 /\ rsa.block[2] = 2)
              /\ (rsa.block[1] /= 0 \/ rsa.block[2] /= 2) => rsa.res = Err("Data")

\* C19 amended: private-key decrypt accepts only blocks whose second byte is
\* 02 and public-key decrypt only blocks whose second byte is 01, the first
\* byte being 00 in both; any other leading bytes give Err(Data).
C19_BlockTypeExpected ==
    PaddedInput =>
        /\ PrivateDecryptCalled =>
              /\ rsa.res.kind = "Ok" => (rsa.block[1] = 0 /\ rsa.block[2] = 2)
              /\ (rsa.block[1] /= 0 \/ rsa.block[2] /= 2) => rsa.res = Err("Data")
        /\ PublicDecryptCalled =>
              /\ rsa.res.kind = "Ok" => (rsa.block[1] = 0 /\ rsa.block[2] = 1)
              /\ (rsa.block[1] /= 0 \/ rsa.block[2] /= 1) => rsa.res = Err("Data")

\* A block 00 02 with eight 0xFF filler bytes, a separator and a payload,
\* given to public-key decrypt and refused for its type.
C19_Witness ==
    /\ rsa.hist = <<"rsa_public_decrypt">>
    /\ rsa.block = <<0, 2>> \o Fill(8, ByteMax) \o <<0>> \o Pattern(3, 1)
    /\ rsa.res = Err("Data")

\* A block 00 02 with a nonzero filler accepted by private-key decrypt, and a
\* block 00 01 with a 0xFF filler accepted by public-key decrypt.
TypeTwoAcceptedByPrivate ==
    /\ rsa.hist = <<"rsa_private_decrypt">>
    /\ rsa.block = <<0, 2>> \o Fill(8, 1) \o <<0>> \o Pattern(3, 1)
    /\ rsa.res = Ok(Pattern(3, 1))

TypeOneAcceptedByPublic ==
    /\ rsa.hist = <<"rsa_public_decrypt">>
    /\ rsa.block = <<0, 1>> \o Fill(8, ByteMax) \o <<0>> \o Pattern(3, 1)
    /\ rsa.res = Ok(Pattern(3, 1))

\* The block 00 01 FF..FF 00 payload of modulus_bytes bytes.
TypeOneBlock(modulus_bytes, payload) ==
    <<0, 1>> \o Fill(modulus_bytes - Len(payload) - 3, ByteMax) \o <<0>> \o payload

\* C20: for a payload with len + 11 <= modulus_bytes rsa_private_encrypt
\* returns the private block transform of exactly the block
\* 00 01 FF x (modulus_bytes - len - 3) 00 payload, of modulus_bytes bytes with at
\* least 8 filler bytes; for a longer payload it returns Err(Len), the result
\* of no transform.
C20_TypeOneLayout ==
    (rsa.hist = <<"rsa_private_encrypt">> /\ WellFormed(rsa.key)) =>
        LET modulus_bytes == ModulusLen(rsa.key.bits)
            len == Len(rsa.input)
        IN  IF len + 11 <= modulus_bytes
            THEN /\ Len(TypeOneBlock(modulus_bytes, rsa.input)) = modulus_bytes
                 /\ modulus_bytes - len - 3 >= 8
                 /\ rsa.res = rsa_private_block(rsa.key,
                                  TypeOneBlock(modulus_bytes, rsa.input))
                 /\ rsa.res.kind = "Ok"
                 /\ rsa_public_block(public_key(rsa.key), rsa.res.bytes) =
                        Ok(TypeOneBlock(modulus_bytes, rsa.input))
            ELSE rsa.res = Err("Len")

\* A 3-byte payload padded under a reference key: the result, raised to the
\* public exponent, is 00 01, the least filler of eight FF bytes, 00 and the
\* payload.
C20_Witness ==
    /\ rsa.hist = <<"rsa_private_encrypt">>
    /\ WellFormed(rsa.key)
    /\ ModulusLen(rsa.key.bits) = DecryptChunkLen
    /\ rsa.input = <<1, 2, 3>>
    /\ rsa.res.kind = "Ok"
    /\ rsa_public_block(public_key(rsa.key), rsa.res.bytes) =
           Ok(<<0, 1>> \o Fill(8, ByteMax) \o <<0, 1, 2, 3>>)

\* A payload one byte too long for the key, refused with Err(Len).
PayloadTooLongRefused ==
    /\ rsa.hist = <<"rsa_private_encrypt">>
    /\ WellFormed(rsa.key)
    /\ Len(rsa.input) + 11 = ModulusLen(rsa.key.bits) + 1
    /\ rsa.res = Err("Len")

\* The bytes of s that are not zero, in order.
NonZeroBytes(s) == SelectSeq(s, LAMBDA b : b /= 0)

\* res is the transform of a block 00 02 filler 00 input of the modulus length
\* whose filler is nonzero and is the generator's stream from r with the zero
\* bytes left out, the generator being left at r2.
TypeTwoLayout(key, input, res, r, r2) ==
    LET modulus_bytes == ModulusLen(key.bits)
        count == modulus_bytes - Len(input) - 3
        block == rsa_private_block(key, res.bytes).bytes
    IN  /\ res.kind = "Ok"
        /\ Len(block) = modulus_bytes
        /\ block[1] = 0 /\ block[2] = 2
        /\ \A k \in 3 .. count + 2 : block[k] /= 0
        /\ block[count + 3] = 0
        /\ \A k \in 3 .. modulus_bytes : block[k] = 0 => k >= count + 3
        /\ SubSeq(block, count + 4, modulus_bytes) = input
        /\ \E k \in count .. 4 * modulus_bytes :
              \E g \in {generate_bytes(r, k)} :
                 /\ g.res.ok
                 /\ g.res.block[k] /= 0
                 /\ NonZeroBytes(g.res.block) = SubSeq(block, 3, count + 2)
                 /\ r2 = g.r

\* rsa_public_encrypt has just been called with a payload it accepts, under a
\* valid key.
PublicEncryptStep ==
    /\ rsa.hist = <<>> /\ rsa'.hist = <<"rsa_public_encrypt">>
    /\ WellFormed(rsa.key)
    /\ Len(rsa.input) + 11 <= ModulusLen(rsa.key.bits)

\* C21: every block rsa_public_encrypt builds is 00 02 filler 00 payload of the
\* modulus length, its filler the nonzero bytes drawn one at a time from the
\* caller's generator, so that the first zero after the type byte is the
\* separator; with a generator that is not seeded (fewer than 256 bytes
\* supplied) the call returns Err(NeedRandom) and transforms nothing.
C21_TypeTwoFiller ==
    [][PublicEncryptStep =>
          IF seeded < RANDOM_BYTES_NEEDED
          THEN rsa'.res = Err("NeedRandom") /\ rs' = rs
          ELSE TypeTwoLayout(rsa.key, rsa.input, rsa'.res, rs, rs')]_<<rs, rsa>>

\* The same for a generator random_final has not been called on.
TypeTwoFillerBeforeFinal ==
    [][(PublicEncryptStep /\ ~finalized) =>
          IF seeded < RANDOM_BYTES_NEEDED
          THEN rsa'.res = Err("NeedRandom") /\ rs' = rs
          ELSE TypeTwoLayout(rsa.key, rsa.input, rsa'.res, rs, rs')]_<<rs, rsa>>

\* The layout whenever the call succeeds, whatever the generator.
TypeTwoLayoutWhenOk ==
    [][(PublicEncryptStep /\ rsa'.res.kind = "Ok") =>
          TypeTwoLayout(rsa.key, rsa.input, rsa'.res, rs, rs')]_<<rs, rsa>>

\* A block built from a generator that was finalised without any seed.
UnseededBlockBuilt ==
    /\ rsa.hist = <<"rsa_public_encrypt">>
    /\ WellFormed(rsa.key)
    /\ finalized /\ seeded = 0
    /\ rsa.res.kind = "Ok"

\* A block built with a seeded generator whose stream held a zero byte that
\* was drawn again.
ZeroDrawDiscarded ==
    /\ rsa.hist = <<"rsa_public_encrypt">>
    /\ WellFormed(rsa.key)
    /\ ~finalized /\ seeded >= RANDOM_BYTES_NEEDED
    /\ rsa.res.kind = "Ok"
    /\ rs.output_available /= (2 * DigestLen - (ModulusLen(rsa.key.bits) - Len(rsa.input) - 3)) % DigestLen

\* rsa_public_decrypt has been given the block rsa_private_encrypt returned
\* for a payload it accepts, under a valid key of the reference size.
SingleBlockReturned ==
    /\ rsa.hist = <<"rsa_private_encrypt", "rsa_public_decrypt">>
    /\ WellFormed(rsa.key)
    /\ ModulusLen(rsa.key.bits) = DecryptChunkLen
    /\ Len(rsa.input) + 11 <= ModulusLen(rsa.key.bits)

\* C25: for a valid key of the reference size and every payload m that
\* rsa_private_encrypt accepts, the empty one included, rsa_public_decrypt of
\* the block rsa_private_encrypt(m) returns Ok(m).
C25_SingleBlockRoundTrip ==
    SingleBlockReturned => rsa.res = Ok(rsa.input)

\* The same for the payloads of at least one byte.
NonEmptyBlockRoundTrip ==
    (SingleBlockReturned /\ Len(rsa.input) >= 1) => rsa.res = Ok(rsa.input)

\* The block of the empty payload, refused.
EmptyPayloadRefused ==
    (SingleBlockReturned /\ rsa.input = <<>>) => rsa.res = Err("Data")

\* The block of the longest payload accepted comes back.
LongestPayloadReturned ==
    /\ SingleBlockReturned
    /\ Len(rsa.input) + 11 = ModulusLen(rsa.key.bits)
    /\ rsa.res = Ok(rsa.input)

(***************************************************************************)
(* r_keygen.rs                                                             *)
(*                                                                         *)
(* Key sizes are scaled as in rsa.rs.  The prime source is the external    *)
(* library behind generate_primes: it answers with two distinct primes     *)
(* whose product has the requested bit length, or it fails.  It draws its  *)
(* primes for its own exponent 65537, whatever exponent generate_pem_keys  *)
(* chooses.                                                                *)
(***************************************************************************)

\* MIN_RSA_MODULUS_BITS, the documented minimum of the reference design (508,
\* four bits under the reference key), scaled to one bit under the 28-bit key.
MIN_RSA_MODULUS_BITS == 27

\* The primes the prime source draws from.
PrimeSamples == {8969, 10979, 11789, 13381, 16381, 18089, 23143, 27701, 32717}

\* Greatest common divisor
RECURSIVE Gcd(_, _)
Gcd(a, b) == IF b = 0 THEN a ELSE Gcd(b, a % b)

\* What RsaPrivateKey::new can answer for a bit length: two distinct primes
\* (in either order) whose product has that length and whose totient is
\* coprime to the library's exponent 65537.
PrimeSource(bits) ==
    { pr \in PrimeSamples \X PrimeSamples :
        /\ pr[1] /= pr[2]
        /\ BitLength(pr[1] * pr[2]) = bits
        /\ Gcd(65537, (pr[1] - 1) * (pr[2] - 1)) = 1 }

\* generate_primes: what the call can return
generate_primes(proto_key) ==
    {[kind |-> "Err", err |-> "Key"]}
        \cup { [kind |-> "Ok", primes |-> pr] : pr \in PrimeSource(proto_key.bits) }

\* The loop of mod_inv; l holds u1, v1, u3, v3 and u1_sign.
RECURSIVE ModInvLoop(_)
ModInvLoop(l) ==
    IF l.v3 = 0 THEN l
    ELSE LET q == l.u3 \div l.v3
             t3 == l.u3 % l.v3
             w == q * l.v1
             t1 == l.u1 + w
         IN  ModInvLoop([u1 |-> l.v1, v1 |-> t1, u3 |-> l.v3, v3 |-> t3,
                         u1_sign |-> -l.u1_sign])

\* mod_inv returning u1 whatever its sign.
ModInvNoNegate(b, c) ==
    ModInvLoop([u1 |-> 1, v1 |-> 0, u3 |-> b, v3 |-> c, u1_sign |-> 1]).u1

\* mod_inv(b, c); -1 when c.sub(u1) underflows
mod_inv(b, c) ==
    LET l == ModInvLoop([u1 |-> 1, v1 |-> 0, u3 |-> b, v3 |-> c, u1_sign |-> 1])
    IN  IF l.u1_sign < 0
        THEN IF l.u1 > c THEN -1 ELSE c - l.u1
        ELSE l.u1

\* RSAPrivateKey::from_components: the key made of the given fields
from_components(bits, modulus, public_exponent, exponent, prime, prime_exponent, coefficient) ==
    PrivateKey(bits, modulus, public_exponent, exponent, prime[1], prime[2],
               prime_exponent[1], prime_exponent[2], coefficient)

\* generate_pem_keys after generate_primes answered with primes
KeyFromPrimes(proto_key, e, primes) ==
    LET p == IF primes[1] > primes[2] THEN primes[1] ELSE primes[2]
        q == IF primes[1] > primes[2] THEN primes[2] ELSE primes[1]
        n == p * q
        q_inv == mod_inv(q, p)
        p_minus_1 == p - 1
        q_minus_1 == q - 1
        phi_n == p_minus_1 * q_minus_1
        d == mod_inv(e, phi_n)
    IN  IF q_inv < 0 \/ d < 0 THEN [kind |-> "Panic"]
        ELSE LET private_key ==
                     from_components(proto_key.bits, n, e, d, <<p, q>>,
                                     <<d % p_minus_1, d % q_minus_1>>, q_inv)
             IN  [kind |-> "Ok", public |-> public_key(private_key),
                  private |-> private_key]

\* generate_pem_keys calling generate_primes before it looks at the size
PemKeysPrimesFirst(proto_key, primes) ==
    IF primes.kind = "Err" THEN [res |-> primes, consulted |-> TRUE]
    ELSE IF ~(proto_key.bits \in MIN_RSA_MODULUS_BITS .. MAX_RSA_MODULUS_BITS)
    THEN [res |-> [kind |-> "Err", err |-> "ModulusLen"], consulted |-> TRUE]
    ELSE [res |-> KeyFromPrimes(proto_key, IF proto_key.use_fermat4 THEN 65537 ELSE 3,
                                primes.primes),
          consulted |-> TRUE]

\* generate_pem_keys, given what generate_primes returns if it is called:
\* the result and whether generate_primes was called
generate_pem_keys(proto_key, primes) ==
    IF ~(proto_key.bits \in MIN_RSA_MODULUS_BITS .. MAX_RSA_MODULUS_BITS)
    THEN [res |-> [kind |-> "Err", err |-> "ModulusLen"], consulted |-> FALSE]
    ELSE LET e == IF proto_key.use_fermat4 THEN 65537 ELSE 3
         IN  [res |-> IF primes.kind = "Err" THEN primes
                      ELSE KeyFromPrimes(proto_key, e, primes.primes),
              consulted |-> TRUE]

\* The bit lengths requested: none, under the minimum, the lengths the prime
\* samples reach, and over the maximum.
KeygenBits ==
    {0, MIN_RSA_MODULUS_BITS - 1, MAX_RSA_MODULUS_BITS + 1}
        \cup (MIN_RSA_MODULUS_BITS .. 30)

InitKeygen ==
    /\ rs = new
    /\ seeded = 0
    /\ finalized = FALSE
    /\ ret = NoCall
    /\ calls = 0
    /\ origin = "new"
    /\ nn = IdleNN
    /\ rsa = IdleRSA
    /\ \E bits \in KeygenBits, use_fermat4 \in BOOLEAN :
          kg = [IdleKeygen EXCEPT !.op = "generate_pem_keys",
                                  !.proto_key = [bits |-> bits,
                                                 use_fermat4 |-> use_fermat4]]

\* generate_pem_keys(&proto_key), with any answer of the prime source
GeneratePemKeys ==
    /\ UNCHANGED nonKeygenVars
    /\ kg.op = "generate_pem_keys" /\ ~kg.called
    /\ \E primes \in generate_primes(kg.proto_key) :
       \E g \in {generate_pem_keys(kg.proto_key, primes)} :
          kg' = [kg EXCEPT !.called = TRUE, !.consulted = g.consulted,
                           !.primes = IF g.consulted THEN primes ELSE @,
                           !.res = g.res]

NextKeygen == GeneratePemKeys

\* Arguments of mod_inv: every pair of small numbers, and the pairs
\* generate_pem_keys passes for the prime samples, (q, p) and (e, phi_n).
MaxInvOperand == 24

InvPairs ==
    ((0 .. MaxInvOperand) \X (0 .. MaxInvOperand))
        \cup { <<pq[2], pq[1]>> : pq \in PrimeSamples \X PrimeSamples }
        \cup { <<e, (pq[1] - 1) * (pq[2] - 1)>> :
                  e \in {3, 65537}, pq \in PrimeSamples \X PrimeSamples }

InitModInv ==
    /\ rs = new
    /\ seeded = 0
    /\ finalized = FALSE
    /\ ret = NoCall
    /\ calls = 0
    /\ origin = "new"
    /\ nn = IdleNN
    /\ rsa = IdleRSA
    /\ \E bc \in InvPairs :
          kg = [IdleKeygen EXCEPT !.op = "mod_inv", !.b = bc[1], !.c = bc[2]]

\* mod_inv(&b, &c)
ModInv ==
    /\ UNCHANGED nonKeygenVars
    /\ kg.op = "mod_inv" /\ ~kg.called
    /\ kg' = [kg EXCEPT !.called = TRUE, !.r = mod_inv(kg.b, kg.c)]

NextModInv == ModInv

\* C12: every key pair generate_pem_keys returns, for either public exponent
\* and any two distinct primes of the prime source, has n = p*q, p > q,
\* e*d mod ((p-1)(q-1)) = 1, dP = d mod (p-1) and dQ = d mod (q-1).
C12_GeneratedKeyConsistent ==
    kg.res.kind = "Ok" =>
        LET key == kg.res.private
            p == key.prime[1]
            q == key.prime[2]
        IN  /\ key.modulus = p * q
            /\ p > q
            /\ MulMod(key.public_exponent, key.exponent, (p - 1) * (q - 1)) = 1
            /\ key.prime_exponent[1] = key.exponent % (p - 1)
            /\ key.prime_exponent[2] = key.exponent % (q - 1)

\* The same for the keys of public exponent 65537 only.
Fermat4KeyConsistent ==
    kg.proto_key.use_fermat4 => C12_GeneratedKeyConsistent

\* C15: generate_pem_keys returns Err(ModulusLen), without calling the prime
\* source, when bits is outside MIN_RSA_MODULUS_BITS ..= MAX_RSA_MODULUS_BITS,
\* and Err(Key) when bits is in range and the prime source fails; neither
\* result carries a key pair.
C15_KeygenRejects ==
    kg.called =>
        /\ ~(kg.proto_key.bits \in MIN_RSA_MODULUS_BITS .. MAX_RSA_MODULUS_BITS) =>
              /\ kg.res = [kind |-> "Err", err |-> "ModulusLen"]
              /\ ~kg.consulted
              /\ kg.primes.kind = "none"
        /\ (kg.proto_key.bits \in MIN_RSA_MODULUS_BITS .. MAX_RSA_MODULUS_BITS) =>
              /\ kg.consulted
              /\ kg.primes.kind = "Err" => kg.res = [kind |-> "Err", err |-> "Key"]

\* A request one bit under the minimum, rejected.
C15_Witness ==
    /\ kg.called
    /\ kg.proto_key.bits = MIN_RSA_MODULUS_BITS - 1
    /\ kg.res = [kind |-> "Err", err |-> "ModulusLen"]
    /\ ~kg.consulted


\* C24: for b >= 1 and c > 1 with gcd(b, c) = 1, mod_inv(b, c) returns r with
\* 0 < r < c and (b * r) mod c = 1; the subtraction c - u1 of a negative final
\* sign does not underflow.
C24_ModInvIsInverse ==
    (kg.op = "mod_inv" /\ kg.called
        /\ kg.b >= 1 /\ kg.c > 1 /\ Gcd(kg.b, kg.c) = 1) =>
        /\ 0 < kg.r /\ kg.r < kg.c
        /\ MulMod(kg.b % kg.c, kg.r, kg.c) = 1

\* The inverse of 65537 modulo the totient of two prime samples, found with a
\* negative final sign.
C24_Witness ==
    /\ kg.op = "mod_inv" /\ kg.called
    /\ kg.b = 65537 /\ kg.c = (16381 - 1) * (13381 - 1)
    /\ Gcd(kg.b, kg.c) = 1
    /\ ModInvLoop([u1 |-> 1, v1 |-> 0, u3 |-> kg.b, v3 |-> kg.c,
                    u1_sign |-> 1]).u1_sign < 0
    /\ kg.r = 143978273

\* An inverse found with a positive final sign.
PositiveSignInverse ==
    /\ kg.op = "mod_inv" /\ kg.called
    /\ kg.b > kg.c /\ kg.c > 1 /\ Gcd(kg.b, kg.c) = 1
    /\ ModInvLoop([u1 |-> 1, v1 |-> 0, u3 |-> kg.b, v3 |-> kg.c,
                    u1_sign |-> 1]).u1_sign > 0
    /\ kg.r > 1

vars == <<rs, seeded, finalized, ret, calls, origin, nn, rsa, kg>>

SpecRandom == InitRandom /\ [][NextRandom]_vars

SpecNN == InitNN /\ [][NextNN]_vars

SpecRSA == InitRSA /\ [][NextRSA]_vars

SpecKeygen == InitKeygen /\ [][NextKeygen]_vars

SpecModInv == InitModInv /\ [][NextModInv]_vars

Init == InitRandom \/ InitNN \/ InitRSA \/ InitKeygen \/ InitModInv

Next == NextRandom \/ NextNN \/ NextRSA \/ NextKeygen \/ NextModInv

Spec == Init /\ [][Next]_vars
====
